---- MODULE Spec2Model ----
(***************************************************************************)
(* Recurring events calendar: the shared-state store (last-write-wins      *)
(* merger, pc/shared_state_store.py), the event store (pc/data/store.py)   *)
(* and the HTTP handlers in front of it (pc/backend/app.py) as state       *)
(* machines.                                                               *)
(*                                                                         *)
(* Text is modelled as a sequence of code points, so that Python's string  *)
(* comparison, strip() and the date formats are computed, not assumed.     *)
(* Python's None / Optional[x] is the empty sequence <<>>, a present value *)
(* x is <<x>>.                                                             *)
(***************************************************************************)
EXTENDS Integers, Sequences, FiniteSets, TLC

VARIABLES
    shared,     \* shared_state table: <<row>>, or <<>> while it holds no row
    epoch,      \* the wall clock of current_epoch_ms(), in milliseconds
    lwwLast,    \* the last call on the shared-state store: arguments, prior row, outcome
    db,         \* events.db: the events and event_history tables and their AUTOINCREMENT counters
    now,        \* the clock of _utcnow(), in ticks of half a second
    last,       \* the last call on the event store: arguments, prior database, outcome
    pc,         \* per thread: where its current store call stands ("idle" between calls)
    frame,      \* per thread: the locals of its current call, or the outcome of its last one
    commits,    \* the number of transactions committed on events.db so far
    completions, \* the completions committed by mark_event_done: history id, event, dates
    store_lock, \* _db_lock of data/store.py: the thread that holds it, 0 when free
    state_lock, \* _db_lock of shared_state_store.py: the thread that holds it, 0 when free
    table,      \* whether shared_state.db has the shared_state table
    peers       \* per peer: its copy of the shared state and the updates it has yet to apply

lwwVars == <<shared, epoch, lwwLast>>

storeVars == <<db, now, last>>

threadVars == <<pc, frame, commits, completions>>

procVars == <<store_lock, state_lock, table, peers>>

vars ==
    <<shared, epoch, lwwLast, db, now, last, pc, frame, commits, completions,
      store_lock, state_lock, table, peers>>

\* ------------------------------------------------------------------ bounds

\* Largest clock reading explored (milliseconds for the shared state).
MaxTime == 2

\* Number of calls on the event store explored in one run; each call takes one
\* tick of the store's clock.
MaxCalls == 4

\* The same for the runs with concurrent callers.
MaxThreadCalls == 3

\* The same for the runs that write history and reload the list.
MaxHistoryCalls == 6

\* Largest frequency_value of the events whose status and progress are computed.
MaxCadence == 2

\* Largest number of months or years, forwards and backwards, added to a date.
MaxShift == 14

\* Number of calls of threads that contend for the lock of the event store, in
\* the runs that check that the lock is released.
MaxLockCalls == 2

\* Largest number of updates two peers receive in different orders.
MaxUpdates == 3

\* ------------------------------------------------------------- Optional[x]

None == <<>>

Some(x) == <<x>>

IsNone(o) == o = <<>>

Get(o) == o[1]

\* ------------------------------------------------------------------- text

\* Python compares str values code point by code point; a proper prefix is smaller.
RECURSIVE StrGt(_, _)
StrGt(a, b) ==
    IF a = <<>> THEN FALSE
    ELSE IF b = <<>> THEN TRUE
    ELSE IF a[1] > b[1] THEN TRUE
    ELSE IF a[1] < b[1] THEN FALSE
    ELSE StrGt(Tail(a), Tail(b))

\* "server"
ServerId == <<115, 101, 114, 118, 101, 114>>

\* source ids the callers pass: "", "s", "server", "t"
SourceIds == {<<>>, <<115>>, ServerId, <<116>>}

Values == {0, 1, 7}

\* updated_at of incoming updates: negative, zero, past, present, future
Stamps == -1 .. (MaxTime + 1)

\* str.strip(): whitespace removed from both ends.
IsSpace(c) == c \in {9, 10, 11, 12, 13, 32}

RECURSIVE LStrip(_)
LStrip(t) ==
    IF t = <<>> THEN t
    ELSE IF IsSpace(t[1]) THEN LStrip(Tail(t))
    ELSE t

RECURSIVE RStrip(_)
RStrip(t) ==
    IF t = <<>> THEN t
    ELSE IF IsSpace(t[Len(t)]) THEN RStrip(SubSeq(t, 1, Len(t) - 1))
    ELSE t

Strip(t) == RStrip(LStrip(t))

\* ------------------------------------------------------------------ dates

\* A datetime.date is <<year, month, day>>.
Year(d) == d[1]

Month(d) == d[2]

Day(d) == d[3]

IsLeap(y) == (y % 4 = 0 /\ y % 100 # 0) \/ y % 400 = 0

\* calendar.monthrange(year, month)[1]
DaysInMonth(y, m) ==
    IF m = 2 THEN (IF IsLeap(y) THEN 29 ELSE 28)
    ELSE IF m \in {4, 6, 9, 11} THEN 30
    ELSE 31

NextDay(d) ==
    IF Day(d) < DaysInMonth(Year(d), Month(d)) THEN <<Year(d), Month(d), Day(d) + 1>>
    ELSE IF Month(d) < 12 THEN <<Year(d), Month(d) + 1, 1>>
    ELSE <<Year(d) + 1, 1, 1>>

PrevDay(d) ==
    IF Day(d) > 1 THEN <<Year(d), Month(d), Day(d) - 1>>
    ELSE IF Month(d) > 1
         THEN <<Year(d), Month(d) - 1, DaysInMonth(Year(d), Month(d) - 1)>>
    ELSE <<Year(d) - 1, 12, 31>>

\* base + timedelta(days = n)
RECURSIVE AddDays(_, _)
AddDays(base, n) ==
    LET left == DaysInMonth(Year(base), Month(base)) - Day(base)
    IN  IF n >= 0
        THEN IF n <= left THEN <<Year(base), Month(base), Day(base) + n>>
             ELSE AddDays(NextDay(<<Year(base), Month(base), Day(base) + left>>),
                          n - left - 1)
        ELSE IF 0 - n < Day(base) THEN <<Year(base), Month(base), Day(base) + n>>
             ELSE AddDays(PrevDay(<<Year(base), Month(base), 1>>), n + Day(base))

\* The decimal digits of n as code points, zero-padded to width.
RECURSIVE Digits(_, _)
Digits(n, width) ==
    IF width = 0 THEN <<>>
    ELSE Append(Digits(n \div 10, width - 1), 48 + (n % 10))

\* The number written by the digits t.
RECURSIVE Number(_)
Number(t) ==
    IF t = <<>> THEN 0
    ELSE 10 * Number(SubSeq(t, 1, Len(t) - 1)) + (t[Len(t)] - 48)

\* value.strftime(DATE_FMT): "YYYY-MM-DD"
FormatDate(d) ==
    Digits(Year(d), 4) \o <<45>> \o Digits(Month(d), 2) \o <<45>> \o Digits(Day(d), 2)

\* _parse_required_date(raw)
parse_required_date(raw) ==
    <<Number(SubSeq(raw, 1, 4)), Number(SubSeq(raw, 6, 7)), Number(SubSeq(raw, 9, 10))>>

\* _parse_date(raw): None for NULL
parse_date(raw) ==
    IF IsNone(raw) THEN None ELSE Some(parse_required_date(Get(raw)))

\* _utcnow() has a sub-second part; TS_FMT keeps whole seconds (two ticks a second).
serialize_datetime(t) == t \div 2

\* _parse_datetime(raw): the datetime at that whole second
parse_datetime(raw) == 2 * raw

\* ------------------------------------------------------ pc/data/store.py

FREQUENCY_UNITS == {"days", "weeks", "months", "years"}

add_months_unclamped(base, months) ==
    IF months = 0 THEN base
    ELSE LET month0 == Month(base) - 1 + months
         IN  <<Year(base) + (month0 \div 12), (month0 % 12) + 1, Day(base)>>

\* _add_months(base, months)
add_months(base, months) ==
    IF months = 0 THEN base
    ELSE LET month0 == Month(base) - 1 + months
             year == Year(base) + (month0 \div 12)
             month == (month0 % 12) + 1
             day == IF Day(base) < DaysInMonth(year, month)
                    THEN Day(base) ELSE DaysInMonth(year, month)
         IN  <<year, month, day>>

\* _add_years(base, years): replace() raises ValueError for Feb 29 in a non-leap year
add_years(base, years) ==
    LET year == Year(base) + years
    IN  IF Day(base) <= DaysInMonth(year, Month(base))
        THEN <<year, Month(base), Day(base)>>
        ELSE <<year, 2, 28>>

\* add_frequency(base, value, unit): None stands for the ValueError of an unknown unit
add_frequency(base, value, unit) ==
    IF unit = "days" THEN Some(AddDays(base, value))
    ELSE IF unit = "weeks" THEN Some(AddDays(base, 7 * value))
    ELSE IF unit = "months" THEN Some(add_months(base, value))
    ELSE IF unit = "years" THEN Some(add_years(base, value))
    ELSE None

\* _row_to_event(row)
row_to_event(row) ==
    [id |-> row.id, name |-> row.name, tag |-> row.tag, details |-> row.details,
     frequency_value |-> row.frequency_value, frequency_unit |-> row.frequency_unit,
     due_date |-> parse_required_date(row.due_date),
     last_done |-> parse_date(row.last_done),
     created_at |-> parse_datetime(row.created_at),
     updated_at |-> parse_datetime(row.updated_at)]

\* _row_to_history(row)
row_to_history(row) ==
    [id |-> row.id, event_id |-> row.event_id, action |-> row.action,
     action_date |-> parse_required_date(row.action_date), note |-> row.note]

\* The database after initialize_database(): both tables empty.
EmptyDb == [events |-> {}, history |-> {}, eseq |-> 0, hseq |-> 0]

\* SELECT ... FROM events WHERE id = ?
EventRows(d, event_id) == {r \in d.events : r.id = event_id}

EventChecks_unit_only(row) ==
    row.frequency_unit \in FREQUENCY_UNITS

\* The CHECK constraints of the events table.
EventChecks(row) ==
    /\ row.frequency_value > 0
    /\ row.frequency_unit \in FREQUENCY_UNITS

\* get_event(event_id)
get_event(d, event_id) ==
    IF EventRows(d, event_id) = {} THEN None
    ELSE Some(row_to_event(CHOOSE r \in EventRows(d, event_id) : TRUE))

\* `tag.strip() if tag and tag.strip() else None`
clean_optional(text) ==
    IF IsNone(text) THEN None
    ELSE IF Get(text) = <<>> THEN None
    ELSE IF Strip(Get(text)) = <<>> THEN None
    ELSE Some(Strip(Get(text)))

\* An outcome of a store call: the database afterwards, the exception raised
\* ("none" when it returns) and the value returned.
Outcome(d, err, ret) == [db |-> d, err |-> err, ret |-> ret]

insert_event_untrimmed(d, a, t) ==
    LET row == [id |-> d.eseq + 1,
                name |-> a.name,
                tag |-> a.tag,
                details |-> a.details,
                frequency_value |-> a.frequency_value,
                frequency_unit |-> a.frequency_unit,
                due_date |-> FormatDate(a.due_date),
                last_done |-> None,
                created_at |-> serialize_datetime(t),
                updated_at |-> serialize_datetime(t)]
    IN  IF ~ EventChecks(row)
        THEN Outcome(d, "IntegrityError", None)
        ELSE Outcome([d EXCEPT !.events = @ \cup {row}, !.eseq = @ + 1],
                     "none", Some(row.id))

\* The transaction of create_event: INSERT INTO events; a violated CHECK raises
\* sqlite3.IntegrityError and the connection rolls back.
insert_event(d, a, t) ==
    LET row == [id |-> d.eseq + 1,
                name |-> Strip(a.name),
                tag |-> clean_optional(a.tag),
                details |-> clean_optional(a.details),
                frequency_value |-> a.frequency_value,
                frequency_unit |-> a.frequency_unit,
                due_date |-> FormatDate(a.due_date),
                last_done |-> None,
                created_at |-> serialize_datetime(t),
                updated_at |-> serialize_datetime(t)]
    IN  IF ~ EventChecks(row)
        THEN Outcome(d, "IntegrityError", None)
        ELSE Outcome([d EXCEPT !.events = @ \cup {row}, !.eseq = @ + 1],
                     "none", Some(row.id))

create_event_coerced(d, a, t) ==
    LET b == IF a.frequency_unit \in FREQUENCY_UNITS THEN a
             ELSE [a EXCEPT !.frequency_unit = "days"]
        ins == insert_event(d, b, t)
    IN  IF ins.err # "none" THEN ins
        ELSE Outcome(ins.db, "none", get_event(ins.db, Get(ins.ret)))

\* create_event(name, tag, details, due_date, frequency_value, frequency_unit)
create_event(d, a, t) ==
    IF a.frequency_unit \notin FREQUENCY_UNITS
    THEN Outcome(d, "InvalidUnit", None)
    ELSE LET ins == insert_event(d, a, t)
         IN  IF ins.err # "none" THEN ins
             ELSE LET record == get_event(ins.db, Get(ins.ret))
                  IN  IF IsNone(record) THEN Outcome(ins.db, "RuntimeError", None)
                      ELSE Outcome(ins.db, "none", record)

\* The keyword arguments of update_event, each None when not supplied.
NoPatch ==
    [name |-> None, tag |-> None, details |-> None, due_date |-> None,
     frequency_value |-> None, frequency_unit |-> None, last_done |-> None]

update_fields_keep_blank(patch) ==
    [name |-> IF IsNone(patch.name) THEN None ELSE Some(Strip(Get(patch.name))),
     tag |-> IF IsNone(patch.tag) THEN None ELSE Some(Some(Strip(Get(patch.tag)))),
     details |-> IF IsNone(patch.details) THEN None
                 ELSE Some(Some(Strip(Get(patch.details)))),
     due_date |-> IF IsNone(patch.due_date) THEN None
                  ELSE Some(FormatDate(Get(patch.due_date))),
     frequency_value |-> patch.frequency_value,
     frequency_unit |-> patch.frequency_unit,
     last_done |-> IF IsNone(patch.last_done) THEN None
                   ELSE Some(Some(FormatDate(Get(patch.last_done))))]

\* update_event, lines 232-258: the SET list; a column maps to None when it is
\* not in the list and to <<value>> when it is (value <<>> is SQL NULL for tag/details).
update_fields(patch) ==
    [name |-> IF IsNone(patch.name) THEN None ELSE Some(Strip(Get(patch.name))),
     tag |-> IF IsNone(patch.tag) THEN None
             ELSE Some(IF Strip(Get(patch.tag)) = <<>> THEN None
                       ELSE Some(Strip(Get(patch.tag)))),
     details |-> IF IsNone(patch.details) THEN None
                 ELSE Some(IF Strip(Get(patch.details)) = <<>> THEN None
                           ELSE Some(Strip(Get(patch.details)))),
     due_date |-> IF IsNone(patch.due_date) THEN None
                  ELSE Some(FormatDate(Get(patch.due_date))),
     frequency_value |-> patch.frequency_value,
     frequency_unit |-> patch.frequency_unit,
     last_done |-> IF IsNone(patch.last_done) THEN None
                   ELSE Some(Some(FormatDate(Get(patch.last_done))))]

\* `if not fields`
NoFields(sets) == \A c \in DOMAIN sets : IsNone(sets[c])

\* The row after UPDATE events SET <sets>, updated_at = ? on it.
update_row_all(row, sets, t) ==
    [id |-> row.id,
     name |-> IF IsNone(sets.name) THEN <<>> ELSE Get(sets.name),
     tag |-> IF IsNone(sets.tag) THEN None ELSE Get(sets.tag),
     details |-> IF IsNone(sets.details) THEN None ELSE Get(sets.details),
     frequency_value |-> IF IsNone(sets.frequency_value) THEN row.frequency_value
                         ELSE Get(sets.frequency_value),
     frequency_unit |-> IF IsNone(sets.frequency_unit) THEN row.frequency_unit
                        ELSE Get(sets.frequency_unit),
     due_date |-> IF IsNone(sets.due_date) THEN row.due_date ELSE Get(sets.due_date),
     last_done |-> IF IsNone(sets.last_done) THEN None ELSE Get(sets.last_done),
     created_at |-> row.created_at,
     updated_at |-> serialize_datetime(t)]

update_row(row, sets, t) ==
    [id |-> row.id,
     name |-> IF IsNone(sets.name) THEN row.name ELSE Get(sets.name),
     tag |-> IF IsNone(sets.tag) THEN row.tag ELSE Get(sets.tag),
     details |-> IF IsNone(sets.details) THEN row.details ELSE Get(sets.details),
     frequency_value |-> IF IsNone(sets.frequency_value) THEN row.frequency_value
                         ELSE Get(sets.frequency_value),
     frequency_unit |-> IF IsNone(sets.frequency_unit) THEN row.frequency_unit
                        ELSE Get(sets.frequency_unit),
     due_date |-> IF IsNone(sets.due_date) THEN row.due_date ELSE Get(sets.due_date),
     last_done |-> IF IsNone(sets.last_done) THEN row.last_done
                   ELSE Get(sets.last_done),
     created_at |-> row.created_at,
     updated_at |-> serialize_datetime(t)]

\* The transaction of update_event: UPDATE events SET ... WHERE id = ?; a violated
\* CHECK raises sqlite3.IntegrityError and the connection rolls back.
update_txn(d, event_id, sets, t) ==
    LET after == {update_row(r, sets, t) : r \in EventRows(d, event_id)}
    IN  IF \E r \in after : ~ EventChecks(r)
        THEN Outcome(d, "IntegrityError", None)
        ELSE Outcome([d EXCEPT !.events = (@ \ EventRows(d, event_id)) \cup after],
                     "none", None)

update_event_unchecked(d, event_id, patch, t) ==
    LET sets == update_fields(patch)
        txn == update_txn(d, event_id, sets, t)
    IN  IF txn.err # "none" THEN txn
        ELSE IF IsNone(get_event(txn.db, event_id))
        THEN Outcome(txn.db, "RuntimeError", None)
        ELSE Outcome(txn.db, "none", get_event(txn.db, event_id))

update_event_always_writes(d, event_id, patch, t) ==
    LET record == get_event(d, event_id)
        sets == update_fields(patch)
    IN  IF IsNone(record) THEN Outcome(d, "NotFound", None)
        ELSE IF /\ ~ IsNone(patch.frequency_unit)
                /\ Get(patch.frequency_unit) \notin FREQUENCY_UNITS
        THEN Outcome(d, "InvalidUnit", None)
        ELSE LET txn == update_txn(d, event_id, sets, t)
             IN  IF txn.err # "none" THEN txn
                 ELSE Outcome(txn.db, "none", get_event(txn.db, event_id))

\* update_event(event_id, **patch)
update_event(d, event_id, patch, t) ==
    LET record == get_event(d, event_id)
        sets == update_fields(patch)
    IN  IF IsNone(record) THEN Outcome(d, "NotFound", None)
        ELSE IF /\ ~ IsNone(patch.frequency_unit)
                /\ Get(patch.frequency_unit) \notin FREQUENCY_UNITS
        THEN Outcome(d, "InvalidUnit", None)
        ELSE IF NoFields(sets) THEN Outcome(d, "none", record)
        ELSE LET txn == update_txn(d, event_id, sets, t)
             IN  IF txn.err # "none" THEN txn
                 ELSE IF IsNone(get_event(txn.db, event_id))
                 THEN Outcome(txn.db, "RuntimeError", None)
                 ELSE Outcome(txn.db, "none", get_event(txn.db, event_id))

delete_event_strict(d, event_id) ==
    IF EventRows(d, event_id) = {} THEN Outcome(d, "NotFound", None)
    ELSE Outcome([d EXCEPT !.events = {r \in @ : r.id # event_id},
                           !.history = {h \in @ : h.event_id # event_id}],
                 "none", None)

delete_event_no_cascade(d, event_id) ==
    Outcome([d EXCEPT !.events = {r \in @ : r.id # event_id}], "none", None)

\* delete_event(event_id): DELETE FROM events, ON DELETE CASCADE on event_history
delete_event(d, event_id) ==
    Outcome([d EXCEPT !.events = {r \in @ : r.id # event_id},
                      !.history = {h \in @ : h.event_id # event_id}],
            "none", None)

insert_history_unchecked(d, event_id, action, action_date, note) ==
    LET row == [id |-> d.hseq + 1, event_id |-> event_id, action |-> action,
                action_date |-> FormatDate(action_date), note |-> note]
    IN  Outcome([d EXCEPT !.history = @ \cup {row}, !.hseq = @ + 1],
                "none", Some(row_to_history(row)))

\* INSERT INTO event_history: the FOREIGN KEY needs the parent row
\* (PRAGMA foreign_keys = ON), else sqlite3.IntegrityError.
insert_history(d, event_id, action, action_date, note) ==
    LET row == [id |-> d.hseq + 1, event_id |-> event_id, action |-> action,
                action_date |-> FormatDate(action_date), note |-> note]
    IN  IF EventRows(d, event_id) = {}
        THEN Outcome(d, "IntegrityError", None)
        ELSE Outcome([d EXCEPT !.history = @ \cup {row}, !.hseq = @ + 1],
                     "none", Some(row_to_history(row)))

\* record_history(event_id, action, action_date_value, note)
record_history(d, event_id, action, action_date, note) ==
    insert_history(d, event_id, action, action_date, note)

\* The UPDATE of mark_event_done on the rows with that id.
mark_rows(d, event_id, done, new_due, t) ==
    {[r EXCEPT !.last_done = Some(FormatDate(done)),
               !.due_date = FormatDate(new_due),
               !.updated_at = serialize_datetime(t)] : r \in EventRows(d, event_id)}

mark_done_txn_no_history(d, event_id, done, new_due, t) ==
    Outcome([d EXCEPT !.events = (@ \ EventRows(d, event_id))
                                 \cup mark_rows(d, event_id, done, new_due, t)],
            "none", None)

mark_done_txn_replaces(d, event_id, done, new_due, t) ==
    LET updated == [d EXCEPT !.events = (@ \ EventRows(d, event_id))
                                         \cup mark_rows(d, event_id, done, new_due, t),
                             !.history = {h \in @ : h.event_id # event_id}]
        ins == insert_history(updated, event_id, "done", done, None)
    IN  IF ins.err # "none" THEN Outcome(d, ins.err, None)
        ELSE Outcome(ins.db, "none", None)

\* The transaction of mark_event_done: the UPDATE and the INSERT commit together;
\* the INSERT's foreign key failing rolls both back.
mark_done_txn(d, event_id, done, new_due, t) ==
    LET updated == [d EXCEPT !.events = (@ \ EventRows(d, event_id))
                                         \cup mark_rows(d, event_id, done, new_due, t)]
        ins == insert_history(updated, event_id, "done", done, None)
    IN  IF ins.err # "none" THEN Outcome(d, ins.err, None)
        ELSE Outcome(ins.db, "none", None)

\* date.today(): the local date during the run
Today == <<2023, 12, 31>>

\* `done = done_date or date.today()`
done_of(done_date) == IF IsNone(done_date) THEN Today ELSE Get(done_date)

new_due_from_old_due(event, done) ==
    add_frequency(event.due_date, event.frequency_value, event.frequency_unit)

\* `new_due = add_frequency(done, event.frequency_value, event.frequency_unit)`
new_due_of(event, done) ==
    add_frequency(done, event.frequency_value, event.frequency_unit)

\* mark_event_done(event_id, done_date)
mark_event_done(d, event_id, done_date, t) ==
    LET event == get_event(d, event_id)
        done == done_of(done_date)
    IN  IF IsNone(event) THEN Outcome(d, "NotFound", None)
        ELSE IF IsNone(new_due_of(Get(event), done))
        THEN Outcome(d, "InvalidUnit", None)
        ELSE LET txn == mark_done_txn(d, event_id, done,
                                      Get(new_due_of(Get(event), done)), t)
             IN  IF txn.err # "none" THEN txn
                 ELSE IF IsNone(get_event(txn.db, event_id))
                 THEN Outcome(txn.db, "RuntimeError", None)
                 ELSE Outcome(txn.db, "none", get_event(txn.db, event_id))

\* COLLATE NOCASE: ASCII upper case folded to lower case
RECURSIVE NoCase(_)
NoCase(text) ==
    IF text = <<>> THEN <<>>
    ELSE <<IF text[1] \in 65 .. 90 THEN text[1] + 32 ELSE text[1]>> \o NoCase(Tail(text))

\* ORDER BY due_date ASC, name COLLATE NOCASE ASC (rows that tie come in rowid order)
EventBefore(a, b) ==
    \/ StrGt(b.due_date, a.due_date)
    \/ /\ a.due_date = b.due_date
       /\ \/ StrGt(NoCase(b.name), NoCase(a.name))
          \/ NoCase(a.name) = NoCase(b.name) /\ a.id < b.id

RECURSIVE SortEvents(_)
SortEvents(rows) ==
    IF rows = {} THEN <<>>
    ELSE LET first == CHOOSE r \in rows : \A o \in rows \ {r} : EventBefore(r, o)
         IN  <<first>> \o SortEvents(rows \ {first})

\* list_events()
list_events(d) ==
    LET rows == SortEvents(d.events)
    IN  [i \in 1 .. Len(rows) |-> row_to_event(rows[i])]

\* ORDER BY action_date DESC within one event_id (rows that tie come in rowid order)
HistoryBefore(a, b) ==
    \/ StrGt(a.action_date, b.action_date)
    \/ a.action_date = b.action_date /\ a.id < b.id

RECURSIVE SortHistory(_)
SortHistory(rows) ==
    IF rows = {} THEN <<>>
    ELSE LET first == CHOOSE r \in rows : \A o \in rows \ {r} : HistoryBefore(r, o)
         IN  <<first>> \o SortHistory(rows \ {first})

\* The first n elements of a sequence.
Take(seq, n) == SubSeq(seq, 1, IF Len(seq) < n THEN Len(seq) ELSE n)

\* list_event_history(event_id, limit): limit None for no LIMIT clause
list_event_history(d, event_id, limit) ==
    LET rows == SortHistory({h \in d.history : h.event_id = event_id})
        kept == IF IsNone(limit) THEN rows ELSE Take(rows, Get(limit))
    IN  [i \in 1 .. Len(kept) |-> row_to_history(kept[i])]

\* ORDER BY event_id ASC, action_date DESC
HistoryRowBefore(a, b) ==
    \/ a.event_id < b.event_id
    \/ a.event_id = b.event_id /\ HistoryBefore(a, b)

RECURSIVE SortHistoryRows(_)
SortHistoryRows(rows) ==
    IF rows = {} THEN <<>>
    ELSE LET first == CHOOSE r \in rows : \A o \in rows \ {r} : HistoryRowBefore(r, o)
         IN  <<first>> \o SortHistoryRows(rows \ {first})

\* _fetch_history_for_event_ids, lines 376-379: the loop over the rows; a row is
\* appended to the bucket of its event while the bucket is shorter than the limit.
RECURSIVE fill_buckets(_, _, _)
fill_buckets(rows, histories, limit_per_event) ==
    IF rows = <<>> THEN histories
    ELSE LET row == Head(rows)
             bucket == histories[row.event_id]
         IN  fill_buckets(
                 Tail(rows),
                 IF Len(bucket) < limit_per_event
                 THEN [histories EXCEPT ![row.event_id] =
                          Append(bucket, row_to_history(row))]
                 ELSE histories,
                 limit_per_event)

fetch_history_row_limited(d, event_ids, limit_per_event) ==
    LET rows == SortHistoryRows({h \in d.history : h.event_id \in event_ids})
    IN  fill_buckets(Take(rows, limit_per_event), [event_id \in event_ids |-> <<>>],
                     limit_per_event)

\* _fetch_history_for_event_ids(event_ids, limit_per_event): event id -> its bucket
fetch_history_for_event_ids(d, event_ids, limit_per_event) ==
    IF event_ids = {} THEN <<>>
    ELSE LET rows == SortHistoryRows({h \in d.history : h.event_id \in event_ids})
         IN  fill_buckets(rows, [event_id \in event_ids |-> <<>>], limit_per_event)

\* list_events_with_history, line 391: the pairs built from the events read first and
\* the history map read afterwards.
pair_events_with_history(events, history_map) ==
    [i \in 1 .. Len(events) |->
        [event |-> events[i],
         history |-> IF events[i].id \in DOMAIN history_map
                     THEN history_map[events[i].id] ELSE <<>>]]

\* list_events_with_history(history_limit) with no other caller in between
list_events_with_history(d, history_limit) ==
    LET events == list_events(d)
        event_ids == {events[i].id : i \in 1 .. Len(events)}
    IN  pair_events_with_history(
            events, fetch_history_for_event_ids(d, event_ids, history_limit))

\* ------------------------------------------------- callers of the event store

D1 == <<2024, 1, 31>>

D2 == <<2024, 2, 29>>

\* " a ", "b", " t", "d", " ", ""
TextA == <<32, 97, 32>>

TextB == <<98>>

TextT == <<32, 116>>

TextD == <<100>>

Blank == <<32>>

Empty == <<>>

\* Event ids the callers pass; an id not yet handed out, or deleted, holds no event.
Ids == {1, 2}

CreateArgs ==
    {[name |-> TextA, tag |-> None, details |-> Some(Empty), due_date |-> D1,
      frequency_value |-> 1, frequency_unit |-> "months"],
     [name |-> TextB, tag |-> Some(TextT), details |-> Some(TextD), due_date |-> D2,
      frequency_value |-> 2, frequency_unit |-> "weeks"],
     [name |-> TextB, tag |-> Some(Blank), details |-> None, due_date |-> D2,
      frequency_value |-> 1, frequency_unit |-> "years"],
     [name |-> TextB, tag |-> Some(Blank), details |-> None, due_date |-> D1,
      frequency_value |-> 0, frequency_unit |-> "days"],
     [name |-> TextA, tag |-> None, details |-> None, due_date |-> D2,
      frequency_value |-> 1, frequency_unit |-> "hours"]}

Patches ==
    {NoPatch,
     [NoPatch EXCEPT !.name = Some(<<32, 99>>)],
     [NoPatch EXCEPT !.tag = Some(Empty)],
     [NoPatch EXCEPT !.tag = Some(TextD), !.details = Some(Blank)],
     [NoPatch EXCEPT !.due_date = Some(D2)],
     [NoPatch EXCEPT !.frequency_value = Some(3), !.frequency_unit = Some("years")],
     [NoPatch EXCEPT !.frequency_unit = Some("days")],
     [NoPatch EXCEPT !.frequency_value = Some(0)],
     [NoPatch EXCEPT !.name = Some(TextB), !.frequency_unit = Some("hours")],
     [NoPatch EXCEPT !.last_done = Some(D1)]}

DoneDates == {None, Some(D1), Some(D2)}

\* history_limit values the callers pass (10 is the default)
HistoryLimits == {1, 10}

Actions == {"done", "skipped"}

NoStoreCall ==
    [op |-> "none", id |-> 0, args |-> <<>>, pre |-> EmptyDb, err |-> "none",
     ret |-> None, at |-> 0, again |-> FALSE]

\* One call on the store, from start to return; it takes one tick of the clock.
\* `again` records that the call before it was the same operation on the same id.
Call(budget, op, event_id, args, out) ==
    /\ now < budget
    /\ db' = out.db
    /\ now' = now + 1
    /\ last' = [op |-> op, id |-> event_id, args |-> args, pre |-> db,
                err |-> out.err, ret |-> out.ret, at |-> now,
                again |-> (last.op = op /\ last.id = event_id)]
    /\ UNCHANGED <<procVars, lwwVars, threadVars>>

StoreCall(op, event_id, args, out) == Call(MaxCalls, op, event_id, args, out)

CreateEvent ==
    \E a \in CreateArgs :
        StoreCall("create_event", 0, a, create_event(db, a, now))

UpdateEvent ==
    \E event_id \in Ids, patch \in Patches :
        StoreCall("update_event", event_id, patch,
                  update_event(db, event_id, patch, now))

DeleteEvent ==
    \E event_id \in Ids :
        StoreCall("delete_event", event_id, <<>>, delete_event(db, event_id))

RecordHistory ==
    \E event_id \in Ids, action \in Actions :
        StoreCall("record_history", event_id, [action |-> action, action_date |-> D2],
                  record_history(db, event_id, action, D2, None))

MarkEventDone ==
    \E event_id \in Ids, done_date \in DoneDates :
        StoreCall("mark_event_done", event_id, [done_date |-> done_date],
                  mark_event_done(db, event_id, done_date, now))

StoreInit ==
    /\ db = EmptyDb
    /\ now = 0
    /\ last = NoStoreCall

StoreNext ==
    \/ CreateEvent
    \/ UpdateEvent
    \/ DeleteEvent
    \/ RecordHistory
    \/ MarkEventDone

\* ---------------------------------------------- the refresh of the event list
\* The UI reloads its list with list_events_with_history after the calls that
\* create events and write history.

HistoryCall(op, event_id, args, out) == Call(MaxHistoryCalls, op, event_id, args, out)

HistoryCreateArgs ==
    {[name |-> TextA, tag |-> None, details |-> None, due_date |-> D2,
      frequency_value |-> 1, frequency_unit |-> "months"],
     [name |-> TextB, tag |-> None, details |-> None, due_date |-> D1,
      frequency_value |-> 2, frequency_unit |-> "weeks"]}

HistoryCreateEvent ==
    \E a \in HistoryCreateArgs :
        HistoryCall("create_event", 0, a, create_event(db, a, now))

HistoryMarkEventDone ==
    \E event_id \in Ids :
        HistoryCall("mark_event_done", event_id, [done_date |-> Some(D1)],
                    mark_event_done(db, event_id, Some(D1), now))

HistoryRecordHistory ==
    \E event_id \in Ids :
        HistoryCall("record_history", event_id,
                    [action |-> "skipped", action_date |-> D2],
                    record_history(db, event_id, "skipped", D2, None))

ListEventsWithHistory ==
    \E history_limit \in HistoryLimits :
        HistoryCall("list_events_with_history", 0, [history_limit |-> history_limit],
                    Outcome(db, "none", list_events_with_history(db, history_limit)))

HistoryNext ==
    \/ HistoryCreateEvent
    \/ HistoryMarkEventDone
    \/ HistoryRecordHistory
    \/ ListEventsWithHistory

\* ------------------------------------------------------ pc/backend/app.py
\* The HTTP handlers are coroutines that call the store without awaiting: the
\* event loop runs each handler from start to return before the next one.

\* A field of a JSON request body: None when the key is absent, Some(None) when
\* it is null, Some(Some(v)) when it carries the value v.
Null == Some(None)

Value(v) == Some(Some(v))

IsNull(f) == (~ IsNone(f)) /\ IsNone(Get(f))

HasValue(f) == (~ IsNone(f)) /\ ~ IsNone(Get(f))

ValueOf(f) == Get(Get(f))

\* payload.dict(exclude_unset=True).get(key): None for an absent key and for null
DataGet(f) == IF IsNone(f) THEN None ELSE Get(f)

\* A PUT body with no key set.
NoBody ==
    [name |-> None, tag |-> None, details |-> None, due_date |-> None,
     frequency_value |-> None, frequency_unit |-> None]

\* EventUpdateRequest: the constraints pydantic validates before the handler runs
valid_update_request(body) ==
    /\ HasValue(body.name) =>
          (Len(ValueOf(body.name)) >= 1 /\ Len(ValueOf(body.name)) <= 128)
    /\ HasValue(body.tag) =>
          (Len(ValueOf(body.tag)) >= 1 /\ Len(ValueOf(body.tag)) <= 64)
    /\ HasValue(body.details) => Len(ValueOf(body.details)) <= 2048
    /\ HasValue(body.frequency_value) =>
          (ValueOf(body.frequency_value) > 0 /\ ValueOf(body.frequency_value) <= 1000)
    /\ HasValue(body.frequency_unit) => ValueOf(body.frequency_unit) \in FREQUENCY_UNITS

\* update_event_api, lines 146-152: details_param
details_param(body) ==
    IF IsNone(body.details) THEN None
    ELSE IF IsNull(body.details) THEN Some(<<>>)
    ELSE Get(body.details)

\* update_event_api, lines 154-162: the keyword arguments passed to update_event
update_event_api_patch(body) ==
    [name |-> DataGet(body.name),
     tag |-> DataGet(body.tag),
     details |-> details_param(body),
     due_date |-> DataGet(body.due_date),
     frequency_value |-> DataGet(body.frequency_value),
     frequency_unit |-> DataGet(body.frequency_unit),
     last_done |-> None]

\* PUT /api/events/{event_id}: err is the HTTP status of a refused request
update_event_api(d, event_id, body, t) ==
    IF ~ valid_update_request(body) THEN Outcome(d, "422", None)
    ELSE IF \A k \in DOMAIN body : IsNone(body[k]) THEN Outcome(d, "400", None)
    ELSE LET out == update_event(d, event_id, update_event_api_patch(body), t)
         IN  IF out.err \in {"NotFound", "InvalidUnit"}
             THEN Outcome(out.db, "404", None)
             ELSE IF out.err # "none" THEN out
             ELSE Outcome(out.db, "none",
                          Some([event |-> Get(out.ret),
                                history |-> list_event_history(out.db, event_id,
                                                               Some(5))]))

\* EventCreateRequest (EventBase): the constraints pydantic validates
valid_create_request(a) ==
    /\ Len(a.name) >= 1 /\ Len(a.name) <= 128
    /\ (~ IsNone(a.tag)) => (Len(Get(a.tag)) >= 1 /\ Len(Get(a.tag)) <= 64)
    /\ (~ IsNone(a.details)) => Len(Get(a.details)) <= 2048
    /\ a.frequency_value > 0 /\ a.frequency_value <= 1000
    /\ a.frequency_unit \in FREQUENCY_UNITS

\* POST /api/events
create_event_api(d, a, t) ==
    IF ~ valid_create_request(a) THEN Outcome(d, "422", None)
    ELSE LET out == create_event(d, a, t)
         IN  IF out.err # "none" THEN out
             ELSE Outcome(out.db, "none",
                          Some([event |-> Get(out.ret), history |-> <<>>]))

\* DELETE /api/events/{event_id}
delete_event_api(d, event_id) ==
    IF IsNone(get_event(d, event_id)) THEN Outcome(d, "404", None)
    ELSE Outcome(delete_event(d, event_id).db, "none", None)

\* The bodies the HTTP clients send.
ApiCreateBodies ==
    {[name |-> TextB, tag |-> Some(TextT), details |-> Some(TextD), due_date |-> D2,
      frequency_value |-> 2, frequency_unit |-> "weeks"],
     [name |-> TextA, tag |-> None, details |-> None, due_date |-> D1,
      frequency_value |-> 1, frequency_unit |-> "months"],
     [name |-> TextB, tag |-> Some(Empty), details |-> None, due_date |-> D1,
      frequency_value |-> 1, frequency_unit |-> "days"]}

ApiUpdateBodies ==
    {NoBody,
     [NoBody EXCEPT !.details = Null],
     [NoBody EXCEPT !.tag = Null],
     [NoBody EXCEPT !.tag = Value(Empty)],
     [NoBody EXCEPT !.tag = Value(Blank)],
     [NoBody EXCEPT !.details = Value(Empty)],
     [NoBody EXCEPT !.name = Value(TextB), !.tag = Value(TextD)]}

CreateEventApi ==
    \E a \in ApiCreateBodies :
        StoreCall("create_event_api", 0, a, create_event_api(db, a, now))

UpdateEventApi ==
    \E event_id \in Ids, body \in ApiUpdateBodies :
        StoreCall("update_event_api", event_id, body,
                  update_event_api(db, event_id, body, now))

DeleteEventApi ==
    \E event_id \in Ids :
        StoreCall("delete_event_api", event_id, <<>>, delete_event_api(db, event_id))

\* The HTTP handlers, and the store calls the desktop UI makes next to them.
ApiNext ==
    \/ CreateEventApi
    \/ UpdateEventApi
    \/ DeleteEventApi
    \/ UpdateEvent
    \/ DeleteEvent

\* ------------------------------------------- concurrent callers of the store
\* Callers (HTTP handlers, UI handlers) run on separate threads. Every
\* `with _db_lock, _connect(...) as conn:` block is one step: the lock and the
\* transaction make it indivisible. Between two blocks of one call the lock is free.

\* The UI thread and the API server thread (start_server_in_thread).
Threads == {1, 2}

\* The arguments the concurrent callers pass.
ThreadPatches ==
    {NoPatch,
     [NoPatch EXCEPT !.tag = Some(Empty)],
     [NoPatch EXCEPT !.frequency_value = Some(3), !.frequency_unit = Some("years")],
     [NoPatch EXCEPT !.frequency_value = Some(0)]}

ThreadDoneDates == {None, Some(D1)}

IdleFrame == [op |-> "none"]

\* A call begins: it takes its tick of the clock.
Begin(t) ==
    /\ pc[t] = "idle"
    /\ now < MaxThreadCalls
    /\ now' = now + 1

\* A call returns or raises.
Return(t, op, event_id, err, ret) ==
    /\ pc' = [pc EXCEPT ![t] = "idle"]
    /\ frame' = [frame EXCEPT ![t] = [op |-> op, id |-> event_id, err |-> err,
                                      ret |-> ret]]

\* create_event, lines 185-210: the unit test and the INSERT transaction
CreateTxn(t) ==
    /\ Begin(t)
    /\ \E a \in CreateArgs :
          IF a.frequency_unit \notin FREQUENCY_UNITS
          THEN /\ Return(t, "create_event", 0, "InvalidUnit", None)
               /\ UNCHANGED <<db, commits>>
          ELSE LET ins == insert_event(db, a, now)
               IN  IF ins.err # "none"
                   THEN /\ Return(t, "create_event", 0, ins.err, None)
                        /\ UNCHANGED <<db, commits>>
                   ELSE /\ db' = ins.db
                        /\ commits' = commits + 1
                        /\ pc' = [pc EXCEPT ![t] = "create_reread"]
                        /\ frame' = [frame EXCEPT ![t] =
                                        [op |-> "create_event", id |-> Get(ins.ret)]]
    /\ UNCHANGED <<procVars, lwwVars, last, completions>>

\* create_event, lines 211-214: record = get_event(event_id)
CreateReread(t) ==
    /\ pc[t] = "create_reread"
    /\ LET record == get_event(db, frame[t].id)
       IN  Return(t, "create_event", frame[t].id,
                  IF IsNone(record) THEN "RuntimeError" ELSE "none", record)
    /\ UNCHANGED <<procVars, lwwVars, storeVars, commits, completions>>

\* mark_event_done, lines 323-328: read the event, compute done and new_due
MarkRead(t) ==
    /\ Begin(t)
    /\ \E event_id \in Ids, done_date \in ThreadDoneDates :
          LET event == get_event(db, event_id)
              done == done_of(done_date)
          IN  IF IsNone(event)
              THEN Return(t, "mark_event_done", event_id, "NotFound", None)
              ELSE IF IsNone(new_due_of(Get(event), done))
              THEN Return(t, "mark_event_done", event_id, "InvalidUnit", None)
              ELSE /\ pc' = [pc EXCEPT ![t] = "mark_txn"]
                   /\ frame' = [frame EXCEPT ![t] =
                                   [op |-> "mark_event_done", id |-> event_id,
                                    done |-> done,
                                    new_due |-> Get(new_due_of(Get(event), done)),
                                    t |-> now, read_at |-> commits]]
    /\ UNCHANGED <<procVars, lwwVars, db, last, commits, completions>>

\* mark_event_done, lines 329-350: the UPDATE and the INSERT in one transaction
MarkTxn(t) ==
    /\ pc[t] = "mark_txn"
    /\ LET f == frame[t]
           txn == mark_done_txn(db, f.id, f.done, f.new_due, f.t)
       IN  IF txn.err # "none"
           THEN /\ Return(t, "mark_event_done", f.id, txn.err, None)
                /\ UNCHANGED <<db, commits, completions>>
           ELSE /\ db' = txn.db
                /\ commits' = commits + 1
                /\ completions' = completions \cup
                       {[hid |-> txn.db.hseq, event_id |-> f.id, done |-> f.done,
                         due |-> f.new_due, at |-> commits + 1]}
                /\ pc' = [pc EXCEPT ![t] = "mark_reread"]
                /\ frame' = [frame EXCEPT ![t] =
                                [op |-> "mark_event_done", id |-> f.id,
                                 done |-> f.done, read_at |-> f.read_at,
                                 committed |-> EventRows(txn.db, f.id)]]
    /\ UNCHANGED <<procVars, lwwVars, now, last>>

\* mark_event_done, lines 351-354: updated = get_event(event_id)
MarkReread(t) ==
    /\ pc[t] = "mark_reread"
    /\ LET record == get_event(db, frame[t].id)
       IN  Return(t, "mark_event_done", frame[t].id,
                  IF IsNone(record) THEN "RuntimeError" ELSE "none", record)
    /\ UNCHANGED <<procVars, lwwVars, storeVars, commits, completions>>

\* update_event, lines 229-263: read the event, build the SET list
UpdateRead(t) ==
    /\ Begin(t)
    /\ \E event_id \in Ids, patch \in ThreadPatches :
          LET record == get_event(db, event_id)
              sets == update_fields(patch)
          IN  IF IsNone(record)
              THEN Return(t, "update_event", event_id, "NotFound", None)
              ELSE IF /\ ~ IsNone(patch.frequency_unit)
                      /\ Get(patch.frequency_unit) \notin FREQUENCY_UNITS
              THEN Return(t, "update_event", event_id, "InvalidUnit", None)
              ELSE IF NoFields(sets)
              THEN Return(t, "update_event", event_id, "none", record)
              ELSE /\ pc' = [pc EXCEPT ![t] = "update_txn"]
                   /\ frame' = [frame EXCEPT ![t] =
                                   [op |-> "update_event", id |-> event_id,
                                    sets |-> sets, t |-> now, read_at |-> commits]]
    /\ UNCHANGED <<procVars, lwwVars, db, last, commits, completions>>

\* update_event, lines 264-269: the UPDATE transaction
UpdateTxn(t) ==
    /\ pc[t] = "update_txn"
    /\ LET f == frame[t]
           txn == update_txn(db, f.id, f.sets, f.t)
       IN  IF txn.err # "none"
           THEN /\ Return(t, "update_event", f.id, txn.err, None)
                /\ UNCHANGED <<db, commits>>
           ELSE /\ db' = txn.db
                /\ commits' = commits + 1
                /\ pc' = [pc EXCEPT ![t] = "update_reread"]
                /\ frame' = [frame EXCEPT ![t] = [op |-> "update_event", id |-> f.id]]
    /\ UNCHANGED <<procVars, lwwVars, now, last, completions>>

\* update_event, lines 270-273: updated = get_event(event_id)
UpdateReread(t) ==
    /\ pc[t] = "update_reread"
    /\ LET record == get_event(db, frame[t].id)
       IN  Return(t, "update_event", frame[t].id,
                  IF IsNone(record) THEN "RuntimeError" ELSE "none", record)
    /\ UNCHANGED <<procVars, lwwVars, storeVars, commits, completions>>

\* delete_event: one transaction
DeleteTxn(t) ==
    /\ Begin(t)
    /\ \E event_id \in Ids :
          /\ db' = delete_event(db, event_id).db
          /\ Return(t, "delete_event", event_id, "none", None)
    /\ commits' = commits + 1
    /\ UNCHANGED <<procVars, lwwVars, last, completions>>

\* list_events_with_history, line 388: events = list_events()
ListEvents(t) ==
    /\ Begin(t)
    /\ \E history_limit \in HistoryLimits :
          /\ pc' = [pc EXCEPT ![t] = "list_history"]
          /\ frame' = [frame EXCEPT ![t] =
                          [op |-> "list_events_with_history",
                           history_limit |-> history_limit,
                           events |-> list_events(db), events_at |-> commits]]
    /\ UNCHANGED <<procVars, lwwVars, db, last, commits, completions>>

\* list_events_with_history, lines 389-391: the history map, read under the lock
\* taken anew, and the pairs returned
ListHistory(t) ==
    /\ pc[t] = "list_history"
    /\ LET f == frame[t]
           event_ids == {f.events[i].id : i \in 1 .. Len(f.events)}
           history_map == fetch_history_for_event_ids(db, event_ids, f.history_limit)
       IN  /\ pc' = [pc EXCEPT ![t] = "idle"]
           /\ frame' = [frame EXCEPT ![t] =
                           [op |-> "list_events_with_history",
                            history_limit |-> f.history_limit,
                            err |-> "none",
                            ret |-> pair_events_with_history(f.events, history_map),
                            events_at |-> f.events_at, history_at |-> commits]]
    /\ UNCHANGED <<procVars, lwwVars, storeVars, commits, completions>>

ThreadInit ==
    /\ pc = [t \in Threads |-> "idle"]
    /\ frame = [t \in Threads |-> IdleFrame]
    /\ commits = 0
    /\ completions = {}

ThreadNext ==
    \E t \in Threads :
        \/ CreateTxn(t)
        \/ CreateReread(t)
        \/ MarkRead(t)
        \/ MarkTxn(t)
        \/ MarkReread(t)
        \/ UpdateRead(t)
        \/ UpdateTxn(t)
        \/ UpdateReread(t)
        \/ DeleteTxn(t)
        \/ ListEvents(t)
        \/ ListHistory(t)

\* ------------------------------------- pc/data/store.py: _db_lock, statement by statement

\* The arguments of the callers that contend for the lock: an event that can be
\* stored and one whose INSERT fails the CHECK on frequency_value.
LockCreateArgs == {a \in CreateArgs : a.frequency_unit \in {"months", "days"}}

LockIds == {1}

\* The locals of a call that is at one of its `with _db_lock, _connect()` blocks;
\* after the call, its outcome.
LockFrame(op, section, event_id, args, done, new_due, t, err, ret) ==
    [op |-> op, section |-> section, id |-> event_id, args |-> args, done |-> done,
     new_due |-> new_due, t |-> t, err |-> err, ret |-> ret]

\* create_event, lines 176-187: the call reaches its INSERT block
LockCreateEvent(t) ==
    /\ Begin(t)
    /\ \E a \in LockCreateArgs :
          frame' = [frame EXCEPT ![t] =
                       LockFrame("create_event", "insert", 0, a, Today, Today, now,
                                 "none", None)]
    /\ pc' = [pc EXCEPT ![t] = "lock_wait"]
    /\ UNCHANGED <<lwwVars, db, last, commits, completions, procVars>>

\* delete_event, line 276: the call reaches its DELETE block
LockDeleteEvent(t) ==
    /\ Begin(t)
    /\ \E event_id \in LockIds :
          frame' = [frame EXCEPT ![t] =
                       LockFrame("delete_event", "delete", event_id, <<>>, Today,
                                 Today, now, "none", None)]
    /\ pc' = [pc EXCEPT ![t] = "lock_wait"]
    /\ UNCHANGED <<lwwVars, db, last, commits, completions, procVars>>

\* record_history, lines 282-289: the call reaches its INSERT block
LockRecordHistory(t) ==
    /\ Begin(t)
    /\ \E event_id \in LockIds :
          frame' = [frame EXCEPT ![t] =
                       LockFrame("record_history", "record", event_id, <<>>, D2,
                                 Today, now, "none", None)]
    /\ pc' = [pc EXCEPT ![t] = "lock_wait"]
    /\ UNCHANGED <<lwwVars, db, last, commits, completions, procVars>>

\* mark_event_done, lines 317-323: the call reaches get_event
LockMarkEventDone(t) ==
    /\ Begin(t)
    /\ \E event_id \in LockIds :
          frame' = [frame EXCEPT ![t] =
                       LockFrame("mark_event_done", "mark_read", event_id, <<>>,
                                 done_of(None), Today, now, "none", None)]
    /\ pc' = [pc EXCEPT ![t] = "lock_wait"]
    /\ UNCHANGED <<lwwVars, db, last, commits, completions, procVars>>

\* `with _db_lock`: threading.Lock.__enter__ returns once no thread holds the lock
LockEnter(t) ==
    /\ pc[t] = "lock_wait"
    /\ store_lock = 0
    /\ store_lock' = t
    /\ pc' = [pc EXCEPT ![t] = "lock_held"]
    /\ UNCHANGED <<lwwVars, storeVars, frame, commits, completions, state_lock,
                   table, peers>>

\* The statements of a `with _db_lock, _connect() as conn` block and the commit or
\* rollback of the connection at its end.
lock_block(d, f) ==
    IF f.section = "insert" THEN insert_event(d, f.args, f.t)
    ELSE IF f.section = "delete" THEN delete_event(d, f.id)
    ELSE IF f.section = "mark_txn" THEN mark_done_txn(d, f.id, f.done, f.new_due, f.t)
    ELSE IF f.section = "record" THEN record_history(d, f.id, "skipped", f.done, None)
    ELSE Outcome(d, "none", get_event(d, f.id))

\* The body of the block runs while the thread holds the lock.
LockBody(t) ==
    /\ pc[t] = "lock_held"
    /\ LET out == lock_block(db, frame[t])
       IN  /\ db' = out.db
           /\ commits' = IF out.db # db THEN commits + 1 ELSE commits
           /\ frame' = [frame EXCEPT ![t] = [@ EXCEPT !.err = out.err,
                                                       !.ret = out.ret]]
    /\ pc' = [pc EXCEPT ![t] = "lock_exit"]
    /\ UNCHANGED <<lwwVars, now, last, completions, procVars>>

\* What the call does after a block: raise, return, or go on to its next block.
\* A frame whose section is "none" is the outcome of the call.
after_block(f) ==
    IF f.err # "none" THEN [f EXCEPT !.section = "none"]
    ELSE IF f.section = "insert"
    THEN [f EXCEPT !.section = "reread", !.id = Get(f.ret), !.ret = None]
    ELSE IF f.section = "mark_txn"
    THEN [f EXCEPT !.section = "reread", !.ret = None]
    ELSE IF f.section = "mark_read"
    THEN (IF IsNone(f.ret) THEN [f EXCEPT !.section = "none", !.err = "NotFound"]
          ELSE [f EXCEPT !.section = "mark_txn",
                         !.new_due = Get(new_due_of(Get(f.ret), f.done)),
                         !.ret = None])
    ELSE IF f.section = "reread"
    THEN [f EXCEPT !.section = "none",
                   !.err = IF IsNone(f.ret) THEN "RuntimeError" ELSE "none"]
    ELSE [f EXCEPT !.section = "none"]

LockExit_held_on_error(t) ==
    /\ pc[t] = "lock_exit"
    /\ store_lock' = IF frame[t].err # "none" THEN store_lock ELSE 0
    /\ frame' = [frame EXCEPT ![t] = after_block(@)]
    /\ pc' = [pc EXCEPT ![t] = IF after_block(frame[t]).section = "none"
                                 THEN "idle" ELSE "lock_wait"]
    /\ UNCHANGED <<lwwVars, storeVars, commits, completions, state_lock, table,
                   peers>>

\* The end of the `with` block: threading.Lock.__exit__ releases the lock, whether
\* the block completed or raised.
LockExit(t) ==
    /\ pc[t] = "lock_exit"
    /\ store_lock' = 0
    /\ frame' = [frame EXCEPT ![t] = after_block(@)]
    /\ pc' = [pc EXCEPT ![t] = IF after_block(frame[t]).section = "none"
                                 THEN "idle" ELSE "lock_wait"]
    /\ UNCHANGED <<lwwVars, storeVars, commits, completions, state_lock, table,
                   peers>>

\* The thread that holds the lock runs on to the end of its block.
LockHolderStep == \E t \in Threads : LockBody(t) \/ LockExit(t)

LockNext ==
    \E t \in Threads :
        \/ LockCreateEvent(t)
        \/ LockDeleteEvent(t)
        \/ LockRecordHistory(t)
        \/ LockMarkEventDone(t)
        \/ LockEnter(t)
        \/ LockBody(t)
        \/ LockExit(t)

\* The calls of a run of MaxLockCalls calls.
ShortCreateEvent(t) == now < MaxLockCalls /\ LockCreateEvent(t)

ShortDeleteEvent(t) == now < MaxLockCalls /\ LockDeleteEvent(t)

ShortRecordHistory(t) == now < MaxLockCalls /\ LockRecordHistory(t)

ShortMarkEventDone(t) == now < MaxLockCalls /\ LockMarkEventDone(t)

ShortLockNext ==
    \E t \in Threads :
        \/ ShortCreateEvent(t)
        \/ ShortDeleteEvent(t)
        \/ ShortRecordHistory(t)
        \/ ShortMarkEventDone(t)
        \/ LockEnter(t)
        \/ LockBody(t)
        \/ LockExit(t)

\* ------------------------------------------------- pc/shared_state_store.py

NoCall == [op |-> "none", value |-> 0, updated_at |-> 0, source_id |-> <<>>,
           pre |-> None, ret |-> None, err |-> "none"]

current_epoch_ms == epoch

\* _should_replace(incoming, current) on (value, updated_at, source_id)
should_replace_value(incoming, current) ==
    IF incoming.updated_at > current.updated_at THEN TRUE
    ELSE IF incoming.updated_at < current.updated_at THEN FALSE
    ELSE IF StrGt(incoming.source_id, current.source_id) THEN TRUE
    ELSE incoming.value > current.value

should_replace_stamp_only(incoming, current) ==
    incoming.updated_at > current.updated_at

should_replace_ties(incoming, current) ==
    IF incoming.updated_at > current.updated_at THEN TRUE
    ELSE IF incoming.updated_at < current.updated_at THEN FALSE
    ELSE ~ StrGt(current.source_id, incoming.source_id)

should_replace(incoming, current) ==
    IF incoming.updated_at > current.updated_at THEN TRUE
    ELSE IF incoming.updated_at < current.updated_at THEN FALSE
    ELSE StrGt(incoming.source_id, current.source_id)

\* The body of apply_lww_update on an existing row: the row stored afterwards.
lww_merge_touch(incoming, current) ==
    IF should_replace(incoming, current)
    THEN incoming
    ELSE [current EXCEPT !.updated_at = incoming.updated_at]

lww_merge(incoming, current) ==
    IF should_replace(incoming, current) THEN incoming ELSE current

SharedInitializeDatabase_reseed ==
    /\ shared' = Some([value |-> 0, updated_at |-> current_epoch_ms,
                       source_id |-> ServerId])
    /\ lwwLast' = [NoCall EXCEPT !.op = "initialize_database", !.pre = shared]
    /\ table' = TRUE
    /\ UNCHANGED <<epoch, storeVars, threadVars, store_lock, state_lock, peers>>

\* initialize_database(): create the table, seed the row if it is absent.
SharedInitializeDatabase ==
    /\ shared' = IF IsNone(shared)
                 THEN Some([value |-> 0, updated_at |-> current_epoch_ms,
                            source_id |-> ServerId])
                 ELSE shared
    /\ lwwLast' = [NoCall EXCEPT !.op = "initialize_database", !.pre = shared]
    /\ table' = TRUE
    /\ UNCHANGED <<epoch, storeVars, threadVars, store_lock, state_lock, peers>>

\* get_state(): without the table the SELECT raises sqlite3.OperationalError.
SharedGetState ==
    /\ lwwLast' = [NoCall EXCEPT !.op = "get_state", !.pre = shared,
                                 !.ret = shared,
                                 !.err = IF IsNone(shared) THEN "OperationalError"
                                         ELSE "none"]
    /\ UNCHANGED <<shared, epoch, storeVars, threadVars, procVars>>

\* apply_lww_update(value, updated_at, source_id); op names the entry point.
ApplyLww(op, value, updated_at, source_id) ==
    LET incoming == [value |-> value, updated_at |-> updated_at,
                     source_id |-> source_id]
        call == [NoCall EXCEPT !.op = op, !.value = value,
                               !.updated_at = updated_at,
                               !.source_id = source_id, !.pre = shared]
    IN  IF IsNone(shared)
        THEN /\ lwwLast' = [call EXCEPT !.err = "OperationalError"]
             /\ UNCHANGED <<shared, epoch, storeVars, threadVars, procVars>>
        ELSE LET current == lww_merge(incoming, Get(shared))
             IN  /\ shared' = Some(current)
                 /\ lwwLast' = [call EXCEPT !.ret = Some(current)]
                 /\ UNCHANGED <<epoch, storeVars, threadVars, procVars>>

ApplyLwwUpdate ==
    \E value \in Values, updated_at \in Stamps, source_id \in SourceIds :
        ApplyLww("apply_lww_update", value, updated_at, source_id)

\* apply_local_update(value, source_id): now = current_epoch_ms(), then apply_lww_update.
ApplyLocalUpdate ==
    \E value \in Values, source_id \in SourceIds :
        LET stamp == current_epoch_ms
        IN  ApplyLww("apply_local_update", value, stamp, source_id)

\* The wall clock moves on between calls.
EpochTick ==
    /\ epoch < MaxTime
    /\ epoch' = epoch + 1
    /\ UNCHANGED <<shared, lwwLast, storeVars, threadVars, procVars>>

\* -------------------------- pc/shared_state_store.py: _db_lock, statement by statement

\* The updates the callers of apply_lww_update pass here.
SeedUpdates ==
    {[value |-> 1, updated_at |-> 1, source_id |-> <<115>>],
     [value |-> 7, updated_at |-> -1, source_id |-> <<>>]}

NoUpdate == [value |-> 0, updated_at |-> 0, source_id |-> <<>>]

\* The locals of a call on the shared-state store; nested is TRUE while the call
\* is inside the initialize_database it called itself.
SeedFrame(op, nested, update, err, ret) ==
    [op |-> op, nested |-> nested, update |-> update, err |-> err, ret |-> ret]

\* The row initialize_database inserts.
seed_row == [value |-> 0, updated_at |-> current_epoch_ms, source_id |-> ServerId]

\* A caller calls initialize_database().
SeedCallInitialize(t) ==
    /\ Begin(t)
    /\ pc' = [pc EXCEPT ![t] = "init_enter"]
    /\ frame' = [frame EXCEPT ![t] =
                    SeedFrame("initialize_database", FALSE, NoUpdate, "none", None)]
    /\ UNCHANGED <<lwwVars, db, last, commits, completions, procVars>>

\* A caller calls get_state().
SeedCallGetState(t) ==
    /\ Begin(t)
    /\ pc' = [pc EXCEPT ![t] = "state_enter"]
    /\ frame' = [frame EXCEPT ![t] =
                    SeedFrame("get_state", FALSE, NoUpdate, "none", None)]
    /\ UNCHANGED <<lwwVars, db, last, commits, completions, procVars>>

\* A caller calls apply_lww_update(value, updated_at, source_id).
SeedCallApplyLwwUpdate(t) ==
    /\ Begin(t)
    /\ pc' = [pc EXCEPT ![t] = "state_enter"]
    /\ \E update \in SeedUpdates :
          frame' = [frame EXCEPT ![t] =
                       SeedFrame("apply_lww_update", FALSE, update, "none", None)]
    /\ UNCHANGED <<lwwVars, db, last, commits, completions, procVars>>

\* get_state line 52, apply_lww_update line 79: `with _db_lock`. threading.Lock is
\* not reentrant: the call waits while any thread holds the lock.
StateEnter(t) ==
    /\ pc[t] = "state_enter"
    /\ state_lock = 0
    /\ state_lock' = t
    /\ pc' = [pc EXCEPT ![t] = "state_select"]
    /\ UNCHANGED <<lwwVars, storeVars, frame, commits, completions, store_lock,
                   table, peers>>

\* get_state lines 53-59, apply_lww_update lines 80-97: the SELECT and what
\* follows it. Without the table the SELECT raises and the `with` releases the
\* lock; without the row the call goes into initialize_database, the lock held;
\* with the row it returns the state (apply_lww_update after its merge) and the
\* `with` releases the lock.
StateSelect(t) ==
    /\ pc[t] = "state_select"
    /\ IF ~ table
       THEN /\ state_lock' = 0
            /\ pc' = [pc EXCEPT ![t] = "idle"]
            /\ frame' = [frame EXCEPT ![t] = [@ EXCEPT !.err = "OperationalError"]]
            /\ UNCHANGED shared
       ELSE IF IsNone(shared)
       THEN /\ pc' = [pc EXCEPT ![t] = "init_enter"]
            /\ frame' = [frame EXCEPT ![t] = [@ EXCEPT !.nested = TRUE]]
            /\ UNCHANGED <<shared, state_lock>>
       ELSE LET current == IF frame[t].op = "apply_lww_update"
                           THEN lww_merge(frame[t].update, Get(shared))
                           ELSE Get(shared)
            IN  /\ shared' = Some(current)
                /\ state_lock' = 0
                /\ pc' = [pc EXCEPT ![t] = "idle"]
                /\ frame' = [frame EXCEPT ![t] = [@ EXCEPT !.ret = Some(current)]]
    /\ UNCHANGED <<epoch, lwwLast, storeVars, commits, completions, store_lock,
                   table, peers>>

\* initialize_database line 26: `with _db_lock`; the thread that holds the lock
\* waits here like any other.
InitEnter(t) ==
    /\ pc[t] = "init_enter"
    /\ state_lock = 0
    /\ state_lock' = t
    /\ pc' = [pc EXCEPT ![t] = "init_create"]
    /\ UNCHANGED <<lwwVars, storeVars, frame, commits, completions, store_lock,
                   table, peers>>

\* initialize_database lines 27-36: CREATE TABLE IF NOT EXISTS, which sqlite3
\* runs outside a transaction: the table is on disk at once.
InitCreateTable(t) ==
    /\ pc[t] = "init_create"
    /\ table' = TRUE
    /\ pc' = [pc EXCEPT ![t] = "init_seed"]
    /\ UNCHANGED <<lwwVars, storeVars, frame, commits, completions, store_lock,
                   state_lock, peers>>

\* initialize_database lines 37-44: the SELECT, the INSERT when the row is
\* absent, the commit and the release of the lock; then the caller goes on:
\* get_state calls itself (line 58), apply_lww_update reads the row and merges
\* (lines 85-97).
InitSeed(t) ==
    /\ pc[t] = "init_seed"
    /\ state_lock' = 0
    /\ LET row == IF IsNone(shared) THEN seed_row ELSE Get(shared)
           f == frame[t]
       IN  IF ~ f.nested
           THEN /\ shared' = Some(row)
                /\ pc' = [pc EXCEPT ![t] = "idle"]
                /\ UNCHANGED frame
           ELSE IF f.op = "get_state"
           THEN /\ shared' = Some(row)
                /\ pc' = [pc EXCEPT ![t] = "state_enter"]
                /\ frame' = [frame EXCEPT ![t] = [@ EXCEPT !.nested = FALSE]]
           ELSE /\ shared' = Some(lww_merge(f.update, row))
                /\ pc' = [pc EXCEPT ![t] = "idle"]
                /\ frame' = [frame EXCEPT ![t] =
                                [@ EXCEPT !.nested = FALSE,
                                          !.ret = Some(lww_merge(f.update, row))]]
    /\ UNCHANGED <<epoch, lwwLast, storeVars, commits, completions, store_lock,
                   table, peers>>

\* The process is killed while initialize_database is the only call running and
\* has not committed its INSERT: the table it created stays, the row does not
\* exist, and the process that starts next has a free lock.
KilledWhileSeeding(t) ==
    /\ pc[t] = "init_seed"
    /\ \A o \in Threads \ {t} : pc[o] = "idle"
    /\ pc' = [pc EXCEPT ![t] = "idle"]
    /\ frame' = [frame EXCEPT ![t] = [@ EXCEPT !.err = "killed"]]
    /\ state_lock' = 0
    /\ UNCHANGED <<lwwVars, storeVars, commits, completions, store_lock, table,
                   peers>>

\* A thread that is inside a call runs on.
SeedStep(t) == StateEnter(t) \/ StateSelect(t) \/ InitEnter(t) \/ InitCreateTable(t)
    \/ InitSeed(t)

SeedNext ==
    \E t \in Threads :
        \/ SeedCallInitialize(t)
        \/ SeedCallGetState(t)
        \/ SeedCallApplyLwwUpdate(t)
        \/ StateEnter(t)
        \/ StateSelect(t)
        \/ InitEnter(t)
        \/ InitCreateTable(t)
        \/ InitSeed(t)
        \/ KilledWhileSeeding(t)

\* ------------------------------------ pc/shared_state_store.py: two peers, one set of updates

Peers == {1, 2}

\* The updates sent to the peers: two timestamps, the source ids "s" and "t",
\* the values 0 and 1.
MergeUpdates ==
    {[value |-> value, updated_at |-> updated_at, source_id |-> source_id] :
        value \in {0, 1}, updated_at \in {0, 1}, source_id \in {<<115>>, <<116>>}}

\* The row both peers store before the updates arrive.
PeerStarts ==
    {[value |-> 0, updated_at |-> 0, source_id |-> ServerId],
     [value |-> 7, updated_at |-> 1, source_id |-> <<115>>]}

\* Both peers hold the same row and are sent the same set of updates.
PeersReceive ==
    /\ peers = <<>>
    /\ \E start \in PeerStarts, updates \in SUBSET MergeUpdates :
          /\ Cardinality(updates) \in 1 .. MaxUpdates
          /\ peers' = [p \in Peers |->
                         [state |-> start, start |-> start, updates |-> updates,
                          todo |-> updates, applied |-> <<>>]]
    /\ UNCHANGED <<lwwVars, storeVars, threadVars, store_lock, state_lock, table>>

\* A peer applies one of the updates it has not applied yet, in any order:
\* apply_lww_update(value, updated_at, source_id) on its own row.
PeerApply(p) ==
    /\ peers # <<>>
    /\ \E update \in peers[p].todo :
          peers' = [peers EXCEPT ![p] =
                       [@ EXCEPT !.state = lww_merge(update, @),
                                 !.todo = @ \ {update},
                                 !.applied = Append(@, update)]]
    /\ UNCHANGED <<lwwVars, storeVars, threadVars, store_lock, state_lock, table>>

PeersNext ==
    \/ PeersReceive
    \/ \E p \in Peers : PeerApply(p)

LwwInit ==
    /\ shared = None
    /\ epoch = 0
    /\ lwwLast = NoCall

LwwNext ==
    \/ SharedInitializeDatabase
    \/ SharedGetState
    \/ ApplyLwwUpdate
    \/ ApplyLocalUpdate
    \/ EpochTick

\* -------------- pc/data/models.py, pc/frontend/utils.py: status and progress
\* Functions of an EventRecord and of today's date; they read no other state.

\* date.toordinal(): the days from 0001-01-01, counted from 1
RECURSIVE DaysBeforeMonth(_, _)
DaysBeforeMonth(y, m) ==
    IF m = 1 THEN 0 ELSE DaysBeforeMonth(y, m - 1) + DaysInMonth(y, m - 1)

Ordinal(d) ==
    LET y == Year(d) - 1
    IN  365 * y + (y \div 4) - (y \div 100) + (y \div 400)
          + DaysBeforeMonth(Year(d), Month(d)) + Day(d)

\* (a - b).days
DaysFrom(a, b) == Ordinal(a) - Ordinal(b)

\* date.__lt__: by year, then month, then day
DateLt(a, b) ==
    \/ Year(a) < Year(b)
    \/ Year(a) = Year(b) /\ Month(a) < Month(b)
    \/ Year(a) = Year(b) /\ Month(a) = Month(b) /\ Day(a) < Day(b)

DateLe(a, b) == a = b \/ DateLt(a, b)

\* EventRecord.is_overdue(today): `today or date.today()`
is_overdue(event, today) ==
    DateLe(event.due_date, IF IsNone(today) THEN Today ELSE Get(today))

\* event_to_response(record, history): the is_overdue flag of the response
response_is_overdue(record) == is_overdue(record, None)

\* The status text of update_view: "Due today", "Overdue since ...", "Next due ..."
status_text(event, today) ==
    IF DateLe(event.due_date, today)
    THEN (IF event.due_date = today THEN "Due today" ELSE "Overdue since")
    ELSE "Next due"

\* str.lower() on the spellings of a unit
unit_lower(unit) ==
    IF unit = "Days" THEN "days"
    ELSE IF unit = "Weeks" THEN "weeks"
    ELSE IF unit = "Months" THEN "months"
    ELSE IF unit = "Years" THEN "years"
    ELSE unit

\* FREQUENCY_UNIT_DAY_MAP.get(unit, 30)
FREQUENCY_UNIT_DAY_MAP(unit) ==
    IF unit = "days" THEN 1
    ELSE IF unit = "weeks" THEN 7
    ELSE IF unit = "months" THEN 30
    ELSE IF unit = "years" THEN 365
    ELSE 30

\* _estimate_frequency_days(value, unit)
estimate_frequency_days(value, unit) ==
    LET base == FREQUENCY_UNIT_DAY_MAP(unit_lower(unit))
    IN  IF value * base > 1 THEN value * base ELSE 1

\* _event_cycle_length_days, lines 25-28: the start of the cycle
cycle_start_any_last_done(event) ==
    IF ~ IsNone(event.last_done)
    THEN Get(event.last_done)
    ELSE Get(add_frequency(event.due_date, 0 - event.frequency_value,
                           event.frequency_unit))

cycle_start(event) ==
    IF (~ IsNone(event.last_done)) /\ DateLt(Get(event.last_done), event.due_date)
    THEN Get(event.last_done)
    ELSE Get(add_frequency(event.due_date, 0 - event.frequency_value,
                           event.frequency_unit))

\* _event_cycle_length_days(event)
event_cycle_length_days(event) ==
    LET span == DaysFrom(event.due_date, cycle_start(event))
    IN  IF span <= 0
        THEN (IF estimate_frequency_days(event.frequency_value, event.frequency_unit) > 1
              THEN estimate_frequency_days(event.frequency_value, event.frequency_unit)
              ELSE 1)
        ELSE span

\* int(round(days / cycle_days * 100)): round() takes the nearest integer and at
\* an exact half the even one; the float product of a quotient that is an exact
\* half may fall just below or just above it, so there either neighbour can come
\* out. The results round() can give for 100 * days / cycle_days >= 0:
rounded_percent(days, cycle_days) ==
    LET q == (100 * days) \div cycle_days
        r == (100 * days) % cycle_days
    IN  IF 2 * r < cycle_days THEN {q}
        ELSE IF 2 * r > cycle_days THEN {q + 1}
        ELSE {q, q + 1}

\* max(0.0, min(100.0, percent)) before round()
clamped_percent(days, cycle_days) ==
    IF days <= 0 THEN {0}
    ELSE IF days >= cycle_days THEN {100}
    ELSE rounded_percent(days, cycle_days)

\* _calculate_overdue_percentage(event, today): the values it can return
calculate_overdue_percentage(event, today) ==
    IF ~ DateLt(event.due_date, today) THEN {None}
    ELSE IF DaysFrom(today, event.due_date) <= 0 THEN {Some(0)}
    ELSE {Some(p) : p \in rounded_percent(DaysFrom(today, event.due_date),
                                            event_cycle_length_days(event))}

calculate_residual_percentage_unclamped(event, today) ==
    IF DateLe(event.due_date, today) THEN {None}
    ELSE {Some(p) : p \in rounded_percent(DaysFrom(event.due_date, today),
                                            event_cycle_length_days(event))}

\* _calculate_residual_percentage(event, today): the values it can return
calculate_residual_percentage(event, today) ==
    IF DateLe(event.due_date, today) THEN {None}
    ELSE {Some(p) : p \in clamped_percent(DaysFrom(event.due_date, today),
                                            event_cycle_length_days(event))}

\* The dates the events carry and the days on which the UI and the API look at
\* them: ends of months, a leap day, the turn of a year.
CalcDates ==
    {<<2023, 3, 1>>, Today, <<2024, 1, 1>>, D1, D2, <<2024, 3, 31>>}

\* An EventRecord as get_event returns it, with the given dates and cadence.
CalcEvent(due_date, last_done, value, unit) ==
    [id |-> 1, name |-> TextB, tag |-> None, details |-> None,
     frequency_value |-> value, frequency_unit |-> unit,
     due_date |-> due_date, last_done |-> last_done,
     created_at |-> 0, updated_at |-> 0]

\* The stored events: positive cadence, a unit of the whitelist (the CHECK
\* constraints), last_done absent, before, on or after the due date.
CalcEvents ==
    {CalcEvent(due_date, last_done, value, unit) :
        due_date \in CalcDates,
        last_done \in {None} \cup {Some(x) : x \in CalcDates},
        value \in 1 .. MaxCadence,
        unit \in FREQUENCY_UNITS}

\* One evaluation of a function; it leaves the store as it is.
Evaluate(op, args, err, ret) ==
    /\ last.op = "none"
    /\ last' = [op |-> op, id |-> 0, args |-> args, pre |-> db, err |-> err,
                ret |-> ret, at |-> now, again |-> FALSE]
    /\ UNCHANGED <<db, now, lwwVars, threadVars, procVars>>

EvaluateAddFrequency ==
    \E base \in CalcDates, value \in (0 - MaxShift) .. MaxShift,
       unit \in FREQUENCY_UNITS \cup {"hours"} :
        Evaluate("add_frequency", [base |-> base, value |-> value, unit |-> unit],
                 IF IsNone(add_frequency(base, value, unit)) THEN "ValueError"
                 ELSE "none",
                 add_frequency(base, value, unit))

EvaluateIsOverdue ==
    \E event \in CalcEvents, today \in CalcDates :
        Evaluate("is_overdue", [event |-> event, today |-> today], "none",
                 [is_overdue |-> is_overdue(event, Some(today)),
                  status |-> status_text(event, today)])

EvaluateEventToResponse ==
    \E event \in CalcEvents :
        Evaluate("event_to_response", [event |-> event, today |-> Today], "none",
                 [is_overdue |-> response_is_overdue(event)])

EvaluatePercentages ==
    \E event \in CalcEvents, today \in CalcDates :
        \E overdue \in calculate_overdue_percentage(event, today),
           residual \in calculate_residual_percentage(event, today) :
            Evaluate("percentages", [event |-> event, today |-> today], "none",
                     [overdue |-> overdue, residual |-> residual])

EvaluateCycleLength ==
    \E event \in CalcEvents :
        Evaluate("event_cycle_length_days", [event |-> event], "none",
                 event_cycle_length_days(event))

CalcNext ==
    \/ EvaluateAddFrequency
    \/ EvaluateIsOverdue
    \/ EvaluateEventToResponse
    \/ EvaluatePercentages
    \/ EvaluateCycleLength

ProcInit ==
    /\ store_lock = 0
    /\ state_lock = 0
    /\ table = FALSE
    /\ peers = <<>>

Init == LwwInit /\ StoreInit /\ ThreadInit /\ ProcInit

\* The shared-state store under any sequence of calls and clock readings.
SpecLww == Init /\ [][LwwNext]_vars

\* The event store under any sequence of calls, one at a time.
Spec == Init /\ [][StoreNext]_vars

\* The event store under the calls that write history and reload the list.
SpecHistory == Init /\ [][HistoryNext]_vars

\* The date arithmetic and the status and progress functions on stored events.
SpecCalc == Init /\ [][CalcNext]_vars

\* The event store behind the HTTP API, one request at a time.
SpecApi == Init /\ [][ApiNext]_vars

\* The event store under calls from concurrent threads.
SpecConc == Init /\ [][ThreadNext]_vars

\* Two peers that apply one set of updates, each in an order of its own.
SpecPeers == Init /\ [][PeersNext]_vars

\* Threads that call the shared-state store, statement by statement; a thread
\* that has entered a call is scheduled until the call ends or waits.
SpecSeed ==
    Init /\ [][SeedNext]_vars /\ \A t \in Threads : WF_vars(SeedStep(t))

\* Threads that call the event store, with the lock as a step of its own.
SpecLock == Init /\ [][LockNext]_vars

\* The same with fewer calls, and the thread that holds the lock is scheduled
\* until it has released it.
SpecLockFair == Init /\ [][ShortLockNext]_vars /\ WF_vars(LockHolderStep)

\* -------------------------------------------------------------- properties

\* The incoming triple of the last shared-state call.
LwwIncoming ==
    [value |-> lwwLast.value, updated_at |-> lwwLast.updated_at,
     source_id |-> lwwLast.source_id]

\* The rule of the specification, on the prior row of the last call.
LwwWins ==
    \/ lwwLast.updated_at > Get(lwwLast.pre).updated_at
    \/ /\ lwwLast.updated_at = Get(lwwLast.pre).updated_at
       /\ StrGt(lwwLast.source_id, Get(lwwLast.pre).source_id)

\* C1: apply_lww_update replaces the stored state by the incoming triple exactly
\* when incoming.updated_at is greater, or equal with a lexicographically greater
\* source_id, whatever the values; when it replaces, the stored and the returned
\* state are the incoming triple, and otherwise the stored state is the prior one.
C1_ReplaceExactlyWhenNewer ==
    (lwwLast.op = "apply_lww_update" /\ ~ IsNone(lwwLast.pre)) =>
        IF LwwWins
        THEN shared = Some(LwwIncoming) /\ lwwLast.ret = Some(LwwIncoming)
        ELSE shared = lwwLast.pre

\* C1 witness: a tie on updated_at decided by the source_id, with a smaller value
\* replacing a larger one.
C1_Witness ==
    /\ lwwLast.op = "apply_lww_update"
    /\ ~ IsNone(lwwLast.pre)
    /\ lwwLast.updated_at = Get(lwwLast.pre).updated_at
    /\ StrGt(lwwLast.source_id, Get(lwwLast.pre).source_id)
    /\ lwwLast.value < Get(lwwLast.pre).value
    /\ shared = Some(LwwIncoming)

\* C2: an update that does not win is a no-op: the stored value, updated_at and
\* source_id are unchanged, no error is raised, and the prior state is returned.
C2_StaleUpdateIsNoOp ==
    (lwwLast.op = "apply_lww_update" /\ ~ IsNone(lwwLast.pre) /\ ~ LwwWins) =>
        /\ shared = lwwLast.pre
        /\ lwwLast.ret = lwwLast.pre
        /\ lwwLast.err = "none"

\* C2 witness: a losing update that differs from the stored row in every field
\* (older, other source, other value), and one that ties on updated_at.
C2_Witness ==
    /\ lwwLast.op = "apply_lww_update"
    /\ ~ IsNone(lwwLast.pre)
    /\ lwwLast.updated_at = Get(lwwLast.pre).updated_at
    /\ StrGt(Get(lwwLast.pre).source_id, lwwLast.source_id)
    /\ lwwLast.value # Get(lwwLast.pre).value
    /\ shared = lwwLast.pre

\* C3: apply_local_update(value, source_id) stamps now and wins over every stored
\* state with updated_at <= now: afterwards the stored state is (value, now, source_id).
C3_LocalUpdateWins ==
    (/\ lwwLast.op = "apply_local_update"
     /\ ~ IsNone(lwwLast.pre)
     /\ Get(lwwLast.pre).updated_at <= lwwLast.updated_at) =>
        shared = Some(LwwIncoming)

\* The event the last store call addressed, as it was before the call.
PriorRows == EventRows(last.pre, last.id)

PriorRow == CHOOSE r \in PriorRows : TRUE

\* ... and as it is now.
CurrentRows == EventRows(db, last.id)

CurrentRow == CHOOSE r \in CurrentRows : TRUE

\* The completion date of the last mark_event_done.
LastDone == IF IsNone(last.args.done_date) THEN Today ELSE Get(last.args.done_date)

\* C4: mark_event_done(id, done) on an existing event sets last_done = done and
\* due_date = add_frequency(done, frequency_value, frequency_unit), anchored to done
\* and not to the previous due_date, and appends exactly one history entry
\* ("done", done) for that event; other events and the existing history entries
\* are unchanged.
C4_MarkDoneAnchorsToDone ==
    (last.op = "mark_event_done" /\ PriorRows # {}) =>
        /\ last.err = "none"
        /\ CurrentRows # {}
        /\ parse_date(CurrentRow.last_done) = Some(LastDone)
        /\ Some(parse_required_date(CurrentRow.due_date))
             = add_frequency(LastDone, PriorRow.frequency_value,
                             PriorRow.frequency_unit)
        /\ {r \in db.events : r.id # last.id} = {r \in last.pre.events : r.id # last.id}
        /\ last.pre.history \subseteq db.history
        /\ Cardinality(db.history \ last.pre.history) = 1
        /\ \A h \in db.history \ last.pre.history :
              /\ h.event_id = last.id
              /\ h.action = "done"
              /\ parse_required_date(h.action_date) = LastDone

\* C4 witness: an event due 2024-02-29 every 2 weeks is completed on 2024-01-31,
\* before its due date, next to another event and an earlier history entry: it
\* is then due 2024-02-14.
C4_Witness ==
    /\ last.op = "mark_event_done"
    /\ last.err = "none"
    /\ PriorRows # {}
    /\ parse_required_date(PriorRow.due_date) = <<2024, 2, 29>>
    /\ PriorRow.frequency_value = 2
    /\ PriorRow.frequency_unit = "weeks"
    /\ LastDone = <<2024, 1, 31>>
    /\ parse_required_date(CurrentRow.due_date) = <<2024, 2, 14>>
    /\ last.pre.history # {}
    /\ \E r \in last.pre.events : r.id # last.id

\* C7: every stored event has frequency_value > 0 and frequency_unit in
\* {days, weeks, months, years}, whatever the arguments of the calls were.
C7_CadenceInvariant ==
    \A r \in db.events :
        /\ r.frequency_value > 0
        /\ r.frequency_unit \in {"days", "weeks", "months", "years"}

\* C7 witness: update_event asked for frequency_value = 0 on an existing event.
C7_Witness ==
    /\ last.op = "update_event"
    /\ PriorRows # {}
    /\ last.args.frequency_value = Some(0)
    /\ db.events # {}

\* An event without a "done" history entry has no last_done.
NoCompletionNoLastDone(d) ==
    \A r \in d.events :
        (~ \E h \in d.history : h.event_id = r.id /\ h.action = "done")
            => IsNone(r.last_done)

\* C8 as claimed: in every reachable state, an event with no completion has
\* last_done = null, update_event being called with any of its keyword fields.
C8_NoCompletionNoLastDone == NoCompletionNoLastDone(db)

\* C8 amended: the database starts with the property, and every call other than an
\* update_event that supplies last_done keeps it.
C8_HoldsWithoutLastDoneKeyword ==
    /\ NoCompletionNoLastDone(EmptyDb)
    /\ [][(last'.op = "update_event" /\ ~ IsNone(last'.args.last_done))
            \/ (NoCompletionNoLastDone(db) => NoCompletionNoLastDone(db'))]_vars

\* C8 witness: after an update_event that does not supply last_done and a
\* record_history of another action, an event without completion has no last_done.
C8_Witness ==
    /\ last.op = "update_event"
    /\ last.err = "none"
    /\ IsNone(last.args.last_done)
    /\ db # last.pre
    /\ CurrentRows # {}
    /\ IsNone(CurrentRow.last_done)
    /\ \E h \in db.history : h.event_id = last.id /\ h.action # "done"

\* C9: update_event and mark_event_done on an id that holds no event fail with
\* the not-found error and leave the database as it was.
C9_NotFoundLeavesStore ==
    (last.op \in {"update_event", "mark_event_done"} /\ PriorRows = {}) =>
        /\ last.err = "NotFound"
        /\ db = last.pre

\* C9 witness: mark_event_done on the id of a deleted event, while another event
\* exists.
C9_Witness ==
    /\ last.op = "mark_event_done"
    /\ PriorRows = {}
    /\ last.id <= last.pre.eseq
    /\ last.pre.events # {}
    /\ last.err = "NotFound"

\* The columns update_event can set.
PatchColumns ==
    {"name", "tag", "details", "due_date", "frequency_value", "frequency_unit",
     "last_done"}

\* C10: update_event changes only the supplied fields and updated_at: id,
\* created_at and every field not supplied keep their values, and all other events
\* and all history entries are unchanged.
C10_UpdateTouchesOnlySupplied ==
    (last.op = "update_event" /\ PriorRows # {}) =>
        /\ CurrentRows # {}
        /\ Cardinality(CurrentRows) = 1
        /\ CurrentRow.id = PriorRow.id
        /\ CurrentRow.created_at = PriorRow.created_at
        /\ \A c \in PatchColumns :
              IsNone(last.args[c]) => CurrentRow[c] = PriorRow[c]
        /\ {r \in db.events : r.id # last.id} = {r \in last.pre.events : r.id # last.id}
        /\ db.history = last.pre.history

\* C10 witness: clearing only the tag of a completed event that has details.
C10_Witness ==
    /\ last.op = "update_event"
    /\ last.err = "none"
    /\ PriorRows # {}
    /\ last.args = [NoPatch EXCEPT !.tag = Some(Empty)]
    /\ ~ IsNone(PriorRow.tag)
    /\ IsNone(CurrentRow.tag)
    /\ ~ IsNone(CurrentRow.details)
    /\ ~ IsNone(CurrentRow.last_done)
    /\ db.history # {}

\* A finished list_events_with_history of thread t shows the history entry of
\* completion c in its i-th pair.
ShowsEntry(t, i, c) ==
    \E j \in 1 .. Len(frame[t].ret[i].history) : frame[t].ret[i].history[j].id = c.hid

\* ... shows the due_date and last_done that completion c wrote.
ShowsEvent(t, i, c) ==
    /\ frame[t].ret[i].event.last_done = Some(c.done)
    /\ frame[t].ret[i].event.due_date = c.due

\* C5: markDone is atomic for readers: every (event, history) pair a reader gets
\* from list_events_with_history shows both the new due_date/last_done and the new
\* "done" entry of a completion, or neither. (A pair whose event was read before
\* the completion committed must not hold its entry; a pair whose event was read
\* after it and shows its dates must hold its entry, unless the limit cut it.)
C5_ReadersSeeCompletionWhole ==
    \A t \in Threads :
        (pc[t] = "idle" /\ frame[t].op = "list_events_with_history") =>
            \A i \in 1 .. Len(frame[t].ret) : \A c \in completions :
                (c.event_id = frame[t].ret[i].event.id) =>
                    /\ ~ (/\ frame[t].events_at < c.at
                          /\ ShowsEntry(t, i, c)
                          /\ ~ ShowsEvent(t, i, c))
                    /\ ~ (/\ c.at <= frame[t].events_at
                          /\ ShowsEvent(t, i, c)
                          /\ ~ ShowsEntry(t, i, c)
                          /\ Len(frame[t].ret[i].history) < frame[t].history_limit)

\* C6: a mark_event_done that runs concurrently with an update_event commits the
\* due_date add_frequency(done, value, unit) for the cadence stored when it commits
\* (no other write takes effect between its read of the event and its write).
C6_MarkDoneUsesStoredCadence ==
    \A t \in Threads :
        (pc[t] = "mark_reread") =>
            \A r \in frame[t].committed :
                Some(parse_required_date(r.due_date))
                    = add_frequency(frame[t].done, r.frequency_value, r.frequency_unit)

\* The optional text columns of an event.
OptionalText == {"tag", "details"}

\* C11 as claimed: in update_event and in the PUT handler, a tag or details that is
\* supplied empty or whitespace-only is cleared to null by the update, and one that
\* is null or omitted keeps its stored value.
C11_BlankClearsNullKeeps ==
    (last.op \in {"update_event", "update_event_api"} /\ PriorRows # {}) =>
        \A c \in OptionalText :
            IF last.op = "update_event"
            THEN /\ IsNone(last.args[c]) => CurrentRow[c] = PriorRow[c]
                 /\ ((~ IsNone(last.args[c])) /\ Strip(Get(last.args[c])) = <<>>
                        /\ last.err = "none") => IsNone(CurrentRow[c])
            ELSE /\ (IsNone(last.args[c]) \/ IsNull(last.args[c]))
                        => CurrentRow[c] = PriorRow[c]
                 /\ (HasValue(last.args[c]) /\ Strip(ValueOf(last.args[c])) = <<>>
                        /\ last.err = "none") => IsNone(CurrentRow[c])

\* C11 amended: update_event is as claimed. In the PUT handler an omitted tag or
\* details and a null tag keep the stored value, a whitespace-only tag and an empty
\* or whitespace-only details are cleared, a null details is cleared too, and an
\* empty tag is refused with status 422 and nothing changes.
C11_NullDetailsClearsInHandler ==
    (last.op \in {"update_event", "update_event_api"} /\ PriorRows # {}) =>
        \A c \in OptionalText :
            IF last.op = "update_event"
            THEN /\ IsNone(last.args[c]) => CurrentRow[c] = PriorRow[c]
                 /\ ((~ IsNone(last.args[c])) /\ Strip(Get(last.args[c])) = <<>>
                        /\ last.err = "none") => IsNone(CurrentRow[c])
            ELSE /\ IsNone(last.args[c]) => CurrentRow[c] = PriorRow[c]
                 /\ (c = "tag" /\ IsNull(last.args[c])) => CurrentRow[c] = PriorRow[c]
                 /\ (c = "details" /\ IsNull(last.args[c]) /\ last.err = "none")
                        => IsNone(CurrentRow[c])
                 /\ (HasValue(last.args[c]) /\ Strip(ValueOf(last.args[c])) = <<>>
                        /\ last.err = "none") => IsNone(CurrentRow[c])
                 /\ (c = "tag" /\ HasValue(last.args[c]) /\ ValueOf(last.args[c]) = <<>>)
                        => (last.err = "422" /\ db = last.pre)

\* C11 witness: a PUT whose body is {"details": null} on an event that has details
\* and a tag: the details are cleared, the tag stays.
C11_Witness ==
    /\ last.op = "update_event_api"
    /\ last.err = "none"
    /\ PriorRows # {}
    /\ IsNull(last.args.details)
    /\ ~ IsNone(PriorRow.details)
    /\ IsNone(CurrentRow.details)
    /\ ~ IsNone(CurrentRow.tag)

\* C12: update_event with no field supplied returns the record as it is stored
\* and changes nothing, updated_at included; update_event with a field supplied
\* that succeeds sets updated_at to the second in which the update is made.
C12_EmptyUpdateKeepsTimestamp ==
    (last.op = "update_event" /\ PriorRows # {}) =>
        /\ (\A c \in PatchColumns : IsNone(last.args[c])) =>
              /\ last.err = "none"
              /\ db = last.pre
              /\ last.ret = Some(row_to_event(PriorRow))
        /\ (last.err = "none" /\ \E c \in PatchColumns : ~ IsNone(last.args[c])) =>
              /\ 2 * CurrentRow.updated_at <= last.at
              /\ last.at <= 2 * CurrentRow.updated_at + 1
              /\ Get(last.ret).updated_at = parse_datetime(CurrentRow.updated_at)

\* C12 witness: an update with no field, made in a later second than the last
\* write of the event.
C12_Witness ==
    /\ last.op = "update_event"
    /\ PriorRows # {}
    /\ last.args = NoPatch
    /\ parse_datetime(PriorRow.updated_at) + 2 <= last.at
    /\ CurrentRow.updated_at = PriorRow.updated_at

\* The text has no whitespace at either end.
Trimmed(text) ==
    text = <<>> \/ (~ IsSpace(text[1]) /\ ~ IsSpace(text[Len(text)]))

\* stored is what is left of given when whitespace is removed from both ends.
TrimOf(stored, given) ==
    /\ Trimmed(stored)
    /\ \E i \in 0 .. Len(given) : \E j \in i .. Len(given) :
          /\ stored = SubSeq(given, i + 1, j)
          /\ \A k \in (1 .. i) \cup ((j + 1) .. Len(given)) : IsSpace(given[k])

\* An optional text field read back from the store, against the one given.
OptionalTrimOf(stored, given) ==
    IF IsNone(given) THEN IsNone(stored)
    ELSE IF \A k \in 1 .. Len(Get(given)) : IsSpace(Get(given)[k]) THEN IsNone(stored)
    ELSE (~ IsNone(stored)) /\ Get(stored) # <<>> /\ TrimOf(Get(stored), Get(given))

\* C13: after a create_event that returns, get_event on the returned id yields an
\* event whose name, tag and details are the inputs trimmed (an optional field that
\* is absent or blank is null, never ""), whose due_date, frequency_value and
\* frequency_unit are the inputs, whose last_done is null and whose created_at
\* equals updated_at.
C13_CreateThenGet ==
    (last.op = "create_event" /\ last.err = "none") =>
        LET got == get_event(db, Get(last.ret).id)
        IN  /\ ~ IsNone(got)
            /\ got = last.ret
            /\ TrimOf(Get(got).name, last.args.name)
            /\ OptionalTrimOf(Get(got).tag, last.args.tag)
            /\ OptionalTrimOf(Get(got).details, last.args.details)
            /\ Get(got).due_date = last.args.due_date
            /\ Get(got).frequency_value = last.args.frequency_value
            /\ Get(got).frequency_unit = last.args.frequency_unit
            /\ IsNone(Get(got).last_done)
            /\ Get(got).created_at = Get(got).updated_at

\* C13 witness: create_event(" a ", None, "", 2024-01-31, 1, "months") next to an
\* earlier event: the name is read back as "a" and the details as null.
C13_Witness ==
    /\ last.op = "create_event"
    /\ last.err = "none"
    /\ last.args.name = TextA
    /\ last.args.details = Some(Empty)
    /\ last.pre.events # {}
    /\ Get(get_event(db, Get(last.ret).id)).name = <<97>>
    /\ IsNone(Get(get_event(db, Get(last.ret).id)).details)

\* The units of the whitelist.
Whitelist == {"days", "weeks", "months", "years"}

\* The last call is a create_event or an update_event given a unit outside the
\* whitelist.
GivenInvalidUnit ==
    \/ last.op = "create_event" /\ last.args.frequency_unit \notin Whitelist
    \/ /\ last.op = "update_event"
       /\ ~ IsNone(last.args.frequency_unit)
       /\ Get(last.args.frequency_unit) \notin Whitelist

\* C14: create_event and update_event given a frequency_unit outside {days, weeks,
\* months, years} raise an error and leave the store as it was: no event is
\* created, no field is modified, the unit is not coerced.
C14_InvalidUnitRejected ==
    GivenInvalidUnit =>
        /\ last.err # "none"
        /\ IsNone(last.ret)
        /\ db = last.pre

\* C14 witness: update_event(id, name="b", frequency_unit="hours") on an existing
\* event raises the unit error and the name stays.
C14_Witness ==
    /\ last.op = "update_event"
    /\ PriorRows # {}
    /\ last.args.frequency_unit = Some("hours")
    /\ ~ IsNone(last.args.name)
    /\ last.err = "InvalidUnit"
    /\ CurrentRow = PriorRow

\* C15: after delete_event(id), get_event(id) finds nothing and
\* list_event_history(id) is empty: every history entry of the event is removed
\* with it; the events and the history entries of other ids are as before.
C15_DeleteCascades ==
    (last.op = "delete_event") =>
        /\ last.err = "none"
        /\ IsNone(get_event(db, last.id))
        /\ list_event_history(db, last.id, None) = <<>>
        /\ \A h \in db.history : h.event_id # last.id
        /\ {r \in db.events : r.id # last.id} = {r \in last.pre.events : r.id # last.id}
        /\ {h \in db.history : h.event_id # last.id}
             = {h \in last.pre.history : h.event_id # last.id}

\* C15 witness: an event with a history entry is deleted while another event
\* exists.
C15_Witness ==
    /\ last.op = "delete_event"
    /\ PriorRows # {}
    /\ \E h \in last.pre.history : h.event_id = last.id
    /\ db.events # {}
    /\ IsNone(get_event(db, last.id))

\* The two ways to delete: the store function and the DELETE handler.
Deletes == {"delete_event", "delete_event_api"}

\* C16: deleting an id that holds no event leaves the store unchanged and has the
\* same outcome every time: delete_event returns without error, the DELETE handler
\* answers 404; a second such call right after the first has the same outcome and
\* leaves the store unchanged again.
C16_DeleteAbsentIdempotent ==
    /\ []((last.op \in Deletes /\ PriorRows = {}) =>
            /\ db = last.pre
            /\ IsNone(last.ret)
            /\ last.err = IF last.op = "delete_event" THEN "none" ELSE "404")
    /\ [][(/\ last.op \in Deletes
            /\ PriorRows = {}
            /\ last'.op = last.op
            /\ last'.id = last.id) =>
                /\ last'.err = last.err
                /\ last'.ret = last.ret
                /\ last'.pre = last.pre
                /\ db' = db]_vars

\* C16 witness: next to a stored event, the DELETE handler is called a second time
\* in a row on an id that was never handed out.
C16_Witness ==
    /\ last.op = "delete_event_api"
    /\ last.again
    /\ last.id > last.pre.eseq
    /\ last.err = "404"
    /\ db.events # {}
    /\ db = last.pre

\* The calendar date a is before the calendar date b.
DateBefore(a, b) ==
    \/ a[1] < b[1]
    \/ a[1] = b[1] /\ a[2] < b[2]
    \/ a[1] = b[1] /\ a[2] = b[2] /\ a[3] < b[3]

\* The stored history rows of an event.
HistoryOf(event_id) == {h \in db.history : h.event_id = event_id}

\* The smaller of two numbers.
Min(a, b) == IF a < b THEN a ELSE b

\* C17: list_events_with_history(history_limit = N) returns one pair for every
\* event; the history of a pair holds min(N, number of entries of that event)
\* distinct entries, all stored entries of that event, sorted by action_date
\* descending, and no entry left out has a greater action_date than one returned.
\* The entries of other events do not count against the limit.
C17_HistoryLimitPerEvent ==
    (last.op = "list_events_with_history") =>
        /\ Len(last.ret) = Cardinality(db.events)
        /\ {last.ret[i].event.id : i \in 1 .. Len(last.ret)} = {r.id : r \in db.events}
        /\ \A i \in 1 .. Len(last.ret) :
              LET hs == last.ret[i].history
                  own == HistoryOf(last.ret[i].event.id)
              IN  /\ Len(hs) = Min(last.args.history_limit, Cardinality(own))
                  /\ \A j \in 1 .. Len(hs) :
                        /\ hs[j].event_id = last.ret[i].event.id
                        /\ \E h \in own :
                              /\ h.id = hs[j].id
                              /\ h.action = hs[j].action
                              /\ h.action_date = FormatDate(hs[j].action_date)
                  /\ \A j, k \in 1 .. Len(hs) :
                        j < k => /\ hs[j].id # hs[k].id
                                 /\ ~ DateBefore(hs[j].action_date, hs[k].action_date)
                  /\ \A h \in own :
                        (\A j \in 1 .. Len(hs) : hs[j].id # h.id) =>
                            \A j \in 1 .. Len(hs) :
                                ~ StrGt(h.action_date, FormatDate(hs[j].action_date))

\* C17 witness: with history_limit = 1, an event with two entries, the later
\* written one having the later action_date, is listed with that entry alone,
\* next to another event that is listed with its own entry.
C17_Witness ==
    /\ last.op = "list_events_with_history"
    /\ last.args.history_limit = 1
    /\ Len(last.ret) = 2
    /\ \E i, k \in 1 .. 2 :
          /\ i # k
          /\ Cardinality(HistoryOf(last.ret[i].event.id)) = 2
          /\ Len(last.ret[i].history) = 1
          /\ \E h \in HistoryOf(last.ret[i].event.id) :
                h.id < last.ret[i].history[1].id
          /\ Len(last.ret[k].history) = 1

\* C18: a history entry, once written, keeps its id, event_id, action, action_date
\* and note and stays in the store through every call, except that the call
\* deleting its parent event removes it; no later entry takes its id.
C18_HistoryImmutable ==
    [][\A h \in db.history :
          /\ \/ h \in db'.history
             \/ /\ last'.op \in Deletes
                /\ last'.id = h.event_id
                /\ EventRows(db, h.event_id) # {}
                /\ EventRows(db', h.event_id) = {}
          /\ \A g \in db'.history : g.id = h.id => g = h]_vars

\* C18 witness: an event with two history entries, one of them a completion, is
\* updated: both entries are stored as before.
C18_Witness ==
    /\ last.op = "update_event"
    /\ last.err = "none"
    /\ db # last.pre
    /\ Cardinality(HistoryOf(last.id)) = 2
    /\ \E h \in HistoryOf(last.id) : h.action = "done"
    /\ db.history = last.pre.history

\* C19: the first initialize_database creates one row with value 0 and source_id
\* "server"; from then on, under every call of initialize_database, get_state,
\* apply_lww_update and apply_local_update, the table holds exactly one row; and
\* initialize_database on a seeded store leaves value, updated_at and source_id as
\* they are.
C19_SingletonSeededOnce ==
    /\ []((lwwLast.op = "initialize_database" /\ IsNone(lwwLast.pre)) =>
            /\ Len(shared) = 1
            /\ shared[1].value = 0
            /\ shared[1].source_id = ServerId)
    /\ []((lwwLast.op = "initialize_database" /\ ~ IsNone(lwwLast.pre)) =>
            shared = lwwLast.pre)
    /\ [][Len(shared) = 1 => Len(shared') = 1]_vars

\* C19 witness: initialize_database is called again after an update has replaced
\* the seeded row, at a later clock reading: the row stays as the update left it.
C19_Witness ==
    /\ lwwLast.op = "initialize_database"
    /\ ~ IsNone(lwwLast.pre)
    /\ Get(lwwLast.pre).value # 0
    /\ Get(lwwLast.pre).source_id # ServerId
    /\ epoch > Get(lwwLast.pre).updated_at
    /\ shared = lwwLast.pre

\* C20: apply_lww_update never raises: for every value, every updated_at (zero and
\* negative included) and every source_id it returns a state, and that state is
\* the state stored after the call.
C20_LwwNeverErrors ==
    (lwwLast.op = "apply_lww_update") =>
        /\ lwwLast.err = "none"
        /\ ~ IsNone(lwwLast.ret)
        /\ lwwLast.ret = shared


\* ------------------------------------------------- status and progress of an event

\* C21: an event whose due_date equals today is "due today", neither overdue nor
\* upcoming: EventRecord.is_overdue(today) is false for it, the is_overdue flag of
\* the API response built from it on that day is false, and both percentage
\* functions return null.
C21_DueTodayNotOverdue ==
    /\ (last.op = "is_overdue" /\ last.args.event.due_date = last.args.today) =>
            /\ last.ret.status = "Due today"
            /\ last.ret.is_overdue = FALSE
    /\ (last.op = "event_to_response" /\ last.args.event.due_date = last.args.today) =>
            last.ret.is_overdue = FALSE
    /\ (last.op = "percentages" /\ last.args.event.due_date = last.args.today) =>
            /\ IsNone(last.ret.overdue)
            /\ IsNone(last.ret.residual)

\* C22: for every event with a positive cadence and every day today: when
\* due_date < today the overdue percentage is a non-negative integer and the
\* residual percentage is null; when due_date > today the residual percentage is
\* an integer from 0 to 100 and the overdue percentage is null; when due_date =
\* today both are null.
C22_PercentageRanges ==
    (last.op = "percentages") =>
        LET event == last.args.event
            today == last.args.today
        IN  /\ event.frequency_value > 0
            /\ DateLt(event.due_date, today) =>
                    /\ ~ IsNone(last.ret.overdue)
                    /\ Get(last.ret.overdue) \in Nat
                    /\ IsNone(last.ret.residual)
            /\ DateLt(today, event.due_date) =>
                    /\ ~ IsNone(last.ret.residual)
                    /\ Get(last.ret.residual) \in 0 .. 100
                    /\ IsNone(last.ret.overdue)
            /\ event.due_date = today =>
                    /\ IsNone(last.ret.overdue)
                    /\ IsNone(last.ret.residual)

\* C22 witness: the residual percentage of an event whose due date lies further
\* ahead than one whole cycle (done a month before it is due, looked at ten months
\* before that) comes out as 100.
C22_Witness ==
    /\ last.op = "percentages"
    /\ DateLt(last.args.today, last.args.event.due_date)
    /\ DaysFrom(last.args.event.due_date, last.args.today)
          > event_cycle_length_days(last.args.event)
    /\ last.ret.residual = Some(100)
    /\ IsNone(last.ret.overdue)

\* C23: add_frequency(base, n, "months"), for negative n and n that crosses a
\* year boundary too, returns the date in the month n months from the month of
\* base, on day min(base.day, days of that month); add_frequency(base, n, "years")
\* returns the same month and day n years away, except that Feb 29 in a non-leap
\* year becomes Feb 28; an unknown unit fails with an error.
C23_AddFrequencyCalendar ==
    (last.op = "add_frequency") =>
        LET base == last.args.base
            n == last.args.value
            unit == last.args.unit
        IN  /\ unit = "months" =>
                    /\ last.err = "none"
                    /\ Month(Get(last.ret)) \in 1 .. 12
                    /\ (12 * Year(Get(last.ret)) + Month(Get(last.ret)))
                          - (12 * Year(base) + Month(base)) = n
                    /\ Day(Get(last.ret)) =
                          Min(Day(base),
                              DaysInMonth(Year(Get(last.ret)), Month(Get(last.ret))))
            /\ unit = "years" =>
                    /\ last.err = "none"
                    /\ Year(Get(last.ret)) = Year(base) + n
                    /\ IF Month(base) = 2 /\ Day(base) = 29 /\ ~ IsLeap(Year(base) + n)
                       THEN Month(Get(last.ret)) = 2 /\ Day(Get(last.ret)) = 28
                       ELSE Month(Get(last.ret)) = Month(base)
                              /\ Day(Get(last.ret)) = Day(base)
            /\ unit \notin FREQUENCY_UNITS =>
                    /\ last.err = "ValueError"
                    /\ IsNone(last.ret)

\* C23 witness: eleven months back from 31 January 2024 is 28 February 2023: the
\* year boundary is crossed backwards and the day is clamped.
C23_Witness ==
    /\ last.op = "add_frequency"
    /\ last.args = [base |-> D1, value |-> 0 - 11, unit |-> "months"]
    /\ last.ret = Some(<<2023, 2, 28>>)

\* C30: _event_cycle_length_days returns an integer >= 1 for every event (last_done
\* null, before, on or after due_date, any cadence of the four units): the number
\* of days from last_done to due_date when last_done < due_date, and otherwise
\* from add_frequency(due_date, -frequency_value, frequency_unit) to due_date.
C30_CycleLengthPositive ==
    (last.op = "event_cycle_length_days") =>
        LET event == last.args.event
        IN  /\ last.ret \in Nat
            /\ last.ret >= 1
            /\ IF (~ IsNone(event.last_done))
                    /\ DateLt(Get(event.last_done), event.due_date)
               THEN AddDays(Get(event.last_done), last.ret) = event.due_date
               ELSE AddDays(Get(add_frequency(event.due_date,
                                              0 - event.frequency_value,
                                              event.frequency_unit)),
                            last.ret) = event.due_date

\* C30 witness: an event due on 1 March 2023 every month, marked done after its
\* due date: the cycle is the 28 days since 1 February 2023.
C30_Witness ==
    /\ last.op = "event_cycle_length_days"
    /\ last.args.event.due_date = <<2023, 3, 1>>
    /\ last.args.event.frequency_unit = "months"
    /\ last.args.event.frequency_value = 1
    /\ ~ IsNone(last.args.event.last_done)
    /\ DateLt(last.args.event.due_date, Get(last.args.event.last_done))
    /\ last.ret = 28


\* ------------------------------------------------- the order of the shared state

\* (updated_at, source_id) of a comes before that of b in lexicographic order
PairLt(a, b) ==
    \/ a.updated_at < b.updated_at
    \/ a.updated_at = b.updated_at /\ StrGt(b.source_id, a.source_id)

InTransaction(t) == pc[t] \in {"lock_held", "lock_exit"}

\* C24: store transactions are mutually exclusive: under any interleaving of
\* threads calling store operations at most one thread at a time is between
\* acquiring the lock and the end of its transaction; the lock is held by that
\* thread and by no other, so it is free after every operation, also one that
\* raised; and a lock that is held is released again, so a later call is never
\* blocked forever.
C24_StoreTransactionsExclusive ==
    /\ [](\A t1 \in Threads : \A t2 \in Threads :
              (InTransaction(t1) /\ InTransaction(t2)) => t1 = t2)
    /\ [](\A t \in Threads : InTransaction(t) <=> store_lock = t)
    /\ [](store_lock \in Threads => <>(store_lock = 0))

\* C24 witness: a create_event whose INSERT failed the CHECK constraint has
\* raised, the lock is free, and the other thread has entered its transaction.
C24_Witness ==
    \E t1 \in Threads : \E t2 \in Threads :
        /\ pc[t1] = "idle"
        /\ frame[t1].op = "create_event"
        /\ frame[t1].err = "IntegrityError"
        /\ pc[t2] = "lock_held"
        /\ store_lock = t2


\* ------------------------------------------------- the lock of the shared state

\* The thread is inside a call of get_state or apply_lww_update.
InStateCall(t) ==
    /\ pc[t] # "idle"
    /\ frame[t].op \in {"get_state", "apply_lww_update"}

\* C25: every call to get_state and apply_lww_update terminates and returns a
\* state, also when the singleton row is absent at the time of the call: the row
\* is then seeded and the call completes instead of waiting for the lock it holds.
C25_StateCallsReturn ==
    \A t \in Threads :
        [](InStateCall(t) =>
              <>(/\ pc[t] = "idle"
                 /\ frame[t].op \in {"get_state", "apply_lww_update"}
                 /\ frame[t].err = "none"
                 /\ ~ IsNone(frame[t].ret)))


\* ------------------------------------------------- the merge on two peers

\* Both peers have applied every update.
PeersDone ==
    /\ peers # <<>>
    /\ \A p \in Peers : peers[p].todo = {}

\* No two updates of the set carry the same (updated_at, source_id) with
\* different values.
StampsIdentify(updates) ==
    \A a \in updates : \A b \in updates :
        (a.updated_at = b.updated_at /\ a.source_id = b.source_id) => a = b

\* C27 as stated: for any finite set of updates applied with apply_lww_update
\* from the same stored state, the final stored state is the same for every
\* order of application: peers that received the same updates converge.
C27_OrderIndependent ==
    PeersDone => peers[1].state = peers[2].state

\* C27 amended: the same for every set of updates in which no two updates carry
\* the same (updated_at, source_id) with different values.
C27_OrderIndependentDistinctStamps ==
    (PeersDone /\ StampsIdentify(peers[1].updates)) =>
        peers[1].state = peers[2].state

\* C27 witness: three updates, two of them with the same timestamp and different
\* source ids, applied in two different orders: both peers end with the same
\* row, which is not the one they started from.
C27_Witness ==
    /\ PeersDone
    /\ StampsIdentify(peers[1].updates)
    /\ Cardinality(peers[1].updates) = 3
    /\ \E a \in peers[1].updates : \E b \in peers[1].updates :
          a.updated_at = b.updated_at /\ a.source_id # b.source_id
    /\ peers[1].applied # peers[2].applied
    /\ peers[1].applied[1] = peers[2].applied[3]
    /\ peers[1].state = peers[2].state
    /\ peers[1].state # peers[1].start


\* ------------------------------------------------- history and its events

\* The thread is about to run a block that writes history for an id that has no
\* event.
WritesHistoryForNoEvent(t) ==
    /\ pc[t] = "lock_held"
    /\ frame[t].section \in {"mark_txn", "record"}
    /\ EventRows(db, frame[t].id) = {}

\* C29: in every state reachable under any interleaving of create_event,
\* delete_event, mark_event_done and record_history, the event_id of every
\* history entry names an event that exists; a write of history for an id with
\* no event (also one deleted between the existence check of mark_event_done and
\* its write) fails, stores nothing and changes no event.
C29_HistoryNamesAnEvent ==
    /\ [](\A h \in db.history : EventRows(db, h.event_id) # {})
    /\ [][\A t \in Threads :
            (WritesHistoryForNoEvent(t) /\ pc'[t] = "lock_exit") =>
                /\ db' = db
                /\ frame'[t].err = "IntegrityError"]_vars

\* C29 witness: a mark_event_done found its event, the event was deleted before
\* the transaction, and the call has raised: the store holds no event and no
\* history.
C29_Witness ==
    \E t \in Threads :
        /\ pc[t] = "idle"
        /\ frame[t].op = "mark_event_done"
        /\ frame[t].err = "IntegrityError"
        /\ db.events = {}
        /\ db.history = {}
        /\ db.eseq > 0


\* ------------------------------------------------- the record a mutation returns

\* The call of the thread returns or raises in this step, from its re-read.
ReturnsFrom(t, position) == pc[t] = position /\ pc'[t] = "idle"

\* C26: under any interleaving with other callers, create_event, update_event
\* and mark_event_done return a record, never a failure caused by another
\* caller's write, and the record is a snapshot of the caller's own write: the
\* one of create_event has the id inserted, the one of mark_event_done is the
\* row its transaction committed, with last_done = done and due_date =
\* add_frequency(done, frequency_value, frequency_unit).
C26_MutationReturnsOwnResult ==
    [][\A t \in Threads :
          /\ ReturnsFrom(t, "create_reread") =>
                 /\ frame'[t].err = "none"
                 /\ Get(frame'[t].ret).id = frame[t].id
          /\ ReturnsFrom(t, "update_reread") =>
                 frame'[t].err = "none"
          /\ ReturnsFrom(t, "mark_reread") =>
                 /\ frame'[t].err = "none"
                 /\ \A r \in frame[t].committed :
                        Get(frame'[t].ret) = row_to_event(r)
                 /\ Get(frame'[t].ret).last_done = Some(frame[t].done)
                 /\ Some(Get(frame'[t].ret).due_date)
                       = add_frequency(frame[t].done,
                                       Get(frame'[t].ret).frequency_value,
                                       Get(frame'[t].ret).frequency_unit)]_vars

====
